---------------------------- MODULE Spec2Model ----------------------------
(***************************************************************************)
(* A model of the fractal image codec of fractal-images: the read-only     *)
(* image views (sub-block, 2x2 downscale, rotation), the block tiler, the  *)
(* least-squares mapping solver, the quadtree encoder, the decoder and the *)
(* QFIC v1 binary codec.                                                   *)
(*                                                                         *)
(* Numbers.  u8/u32/i16 values are integers (the values of the model stay  *)
(* far below the widths).  An f64 is modelled by the exact rational it     *)
(* approximates, a pair <<p, q>> with q > 0 in lowest terms.  The sums the *)
(* solver forms are integers below 2^53, exact in f64, and a quotient of   *)
(* two of them is above 1 in f64 exactly when it is above 1.  A quotient   *)
(* whose denominator is no power of two is rounded, and what is computed   *)
(* from it is off by a few ulps: where the exact value sits on a boundary  *)
(* the program tests (an error of exactly 0, whose computed value may be   *)
(* negative and its square root NaN; an error of exactly the threshold; a  *)
(* brightness that is exactly an integer, truncated by `as i16`), the      *)
(* model admits both outcomes.                                             *)
(***************************************************************************)
EXTENDS Integers, Sequences, FiniteSets, TLC

(***************************************************************************)
(* Bounds of the model.                                                    *)
(***************************************************************************)
MaxTileSide == 6

(***************************************************************************)
(* Small helpers.                                                          *)
(***************************************************************************)
Abs(a) == IF a < 0 THEN -a ELSE a

Min(a, b) == IF a < b THEN a ELSE b

Max(a, b) == IF a < b THEN b ELSE a

Range(s) == {s[i] : i \in DOMAIN s}

RECURSIVE SumSeq(_)
SumSeq(s) == IF s = <<>> THEN 0 ELSE Head(s) + SumSeq(Tail(s))

RECURSIVE Flatten(_)
Flatten(ss) == IF ss = <<>> THEN <<>> ELSE Head(ss) \o Flatten(Tail(ss))

(***************************************************************************)
(* image.rs: Size, Coords.                                                 *)
(***************************************************************************)
Size_new(width, height) == [width |-> width, height |-> height]

Size_squared(size) == Size_new(size, size)

is_squared(size) == size.width = size.height

area(size) == size.width * size.height

transpose(size) == Size_new(size.height, size.width)

\* impl Div<u32> for Size: both fields are computed from the width.
Size_div(size, rhs) == [width |-> size.width \div rhs, height |-> size.width \div rhs]

Coords(x, y) == [x |-> x, y |-> y]

Coords_add(a, b) == [x |-> a.x + b.x, y |-> a.y + b.y]

Rotations == {"By0", "By90", "By180", "By270"}

(***************************************************************************)
(* The image views.  A view is a record tagged by its kind:                *)
(*   "fake"   FakeImage          [size]                                    *)
(*   "owned"  OwnedImage         [size, data]  (data: row-major sequence)  *)
(*   "block"  SquaredBlock<I>    [image, size, origin]                     *)
(*   "down"   Downscaled2x2<I>   [image]                                   *)
(*   "rot"    Rotated<I>         [image, rotation]                         *)
(***************************************************************************)
FakeImage(size) == [kind |-> "fake", size |-> size]

OwnedImage(size, data) == [kind |-> "owned", size |-> size, data |-> data]

SquaredBlock(image, size, origin) ==
    [kind |-> "block", image |-> image, size |-> size, origin |-> origin]

downscale_2x2(image) == [kind |-> "down", image |-> image]

rot(image, rotation) == [kind |-> "rot", image |-> image, rotation |-> rotation]

all_rotations(image) ==
    << rot(image, "By0"), rot(image, "By90"), rot(image, "By180"), rot(image, "By270") >>

RECURSIVE get_size(_)
get_size(v) ==
    CASE v.kind = "fake"  -> v.size
      [] v.kind = "owned" -> v.size
      [] v.kind = "block" -> Size_squared(v.size)
      [] v.kind = "down"  -> Size_div(get_size(v.image), 2)
      [] v.kind = "rot"   -> IF v.rotation \in {"By0", "By180"}
                             THEN get_size(v.image)
                             ELSE transpose(get_size(v.image))

get_width(v) == get_size(v).width

get_height(v) == get_size(v).height

\* A faulty variant of rotated_coords: By0 reads the row from its other end.
rotated_coords_flipped(rotation, x, y, w, h) ==
    CASE rotation = "By0"   -> Coords(w - 1 - x, y)
      [] rotation = "By90"  -> Coords(y, w - 1 - x)
      [] rotation = "By180" -> Coords(w - 1 - x, h - 1 - y)
      [] rotation = "By270" -> Coords(h - 1 - y, x)

\* A faulty variant of rotated_coords: the quarter turns go the other way.
rotated_coords_mirrored(rotation, x, y, w, h) ==
    CASE rotation = "By0"   -> Coords(x, y)
      [] rotation = "By90"  -> Coords(h - 1 - y, x)
      [] rotation = "By180" -> Coords(w - 1 - x, h - 1 - y)
      [] rotation = "By270" -> Coords(y, w - 1 - x)

\* Rotated::pixel: the coordinates read from the inner image for (x, y), w
\* and h being self.get_width() and self.get_height().  A subtraction that
\* goes below zero (a panic, or a wrapped u32 the inner image's assertion
\* fails on) is kept as the negative number.
rotated_coords(rotation, x, y, w, h) ==
    CASE rotation = "By0"   -> Coords(x, y)
      [] rotation = "By90"  -> Coords(y, w - 1 - x)
      [] rotation = "By180" -> Coords(w - 1 - x, h - 1 - y)
      [] rotation = "By270" -> Coords(h - 1 - y, x)

\* The bounds assertions a pixel read passes through (assert!(x < ...)); a
\* read that fails one of them panics.
RECURSIVE pixel_in_bounds(_, _, _)
pixel_in_bounds(v, x, y) ==
    CASE v.kind = "fake"  -> x >= 0 /\ y >= 0 /\ x < v.size.width /\ y < v.size.height
      [] v.kind = "owned" -> x >= 0 /\ y >= 0 /\ x < v.size.width /\ y < v.size.height
      [] v.kind = "block" -> /\ x >= 0 /\ y >= 0 /\ x < v.size /\ y < v.size
                             /\ pixel_in_bounds(v.image, v.origin.x + x, v.origin.y + y)
      [] v.kind = "down"  -> /\ pixel_in_bounds(v.image, 2 * x, 2 * y)
                             /\ pixel_in_bounds(v.image, 2 * x + 1, 2 * y)
                             /\ pixel_in_bounds(v.image, 2 * x, 2 * y + 1)
                             /\ pixel_in_bounds(v.image, 2 * x + 1, 2 * y + 1)
      [] v.kind = "rot"   ->
            LET c == rotated_coords(v.rotation, x, y, get_size(v).width, get_size(v).height)
            IN pixel_in_bounds(v.image, c.x, c.y)

\* A faulty variant of downscale_sum: the four pixels are added as u8.
downscale_sum_u8(a, b, c, d) == (a + b + c + d) % 256

\* self.image.pixel(..) as u32 + .. : the four pixels are added as u32.
downscale_sum(a, b, c, d) == a + b + c + d

\* (0.25 * sum as f64) as Pixel: a quarter of a u32 is an f64 without
\* rounding, and the cast drops its fraction and saturates at the greatest u8.
quarter_as_Pixel(sum) == IF sum \div 4 > 255 THEN 255 ELSE sum \div 4

RECURSIVE pixel(_, _, _)
pixel(v, x, y) ==
    CASE v.kind = "fake"  -> (y * v.size.width + x) % 256
      [] v.kind = "owned" -> v.data[y * v.size.width + x + 1]
      [] v.kind = "block" -> pixel(v.image, v.origin.x + x, v.origin.y + y)
      [] v.kind = "down"  ->
            quarter_as_Pixel(downscale_sum(pixel(v.image, 2 * x, 2 * y),
                                           pixel(v.image, 2 * x + 1, 2 * y),
                                           pixel(v.image, 2 * x, 2 * y + 1),
                                           pixel(v.image, 2 * x + 1, 2 * y + 1)))
      [] v.kind = "rot"   ->
            LET c == rotated_coords(v.rotation, x, y, get_size(v).width, get_size(v).height)
            IN pixel(v.image, c.x, c.y)

\* PixelIterator: the coordinates of a view in row-major order.
pixel_coords(v) ==
    LET w == get_size(v).width
        h == get_size(v).height
    IN [k \in 1 .. w * h |-> Coords((k - 1) % w, (k - 1) \div w)]

\* IterablePixels::pixels
pixels(v) ==
    LET cs == pixel_coords(v)
    IN [k \in DOMAIN cs |-> pixel(v, cs[k].x, cs[k].y)]

(***************************************************************************)
(* image/block.rs: the tiler.  A result is Ok(blocks), Err(InvalidSize)    *)
(* or a panic (the remainder by a zero block size, the squareness          *)
(* assertion).                                                             *)
(***************************************************************************)
Block(block_size, origin) == [block_size |-> block_size, origin |-> origin]

Ok(value) == [tag |-> "Ok", value |-> value]

Err(error) == [tag |-> "Err", error |-> error]

Panic == [tag |-> "Panic"]

\* The origin of the block with block indices (x, y): coords!(size * y, size * x).
block_origin(size, x, y) == Coords(size * y, size * x)

create_blocks(image_size, size) ==
    IF ~is_squared(image_size) THEN Panic
    ELSE IF size = 0 THEN Panic
    ELSE IF image_size.width % size # 0 \/ image_size.height % size # 0
         THEN Err([kind |-> "SquareSizeDoesNotDivideImageSize",
                   image_size |-> image_size, size |-> size])
    ELSE LET nx == image_size.width \div size
             ny == image_size.height \div size
         IN Ok([k \in 1 .. nx * ny |->
                   Block(size, block_origin(size, (k - 1) \div ny, (k - 1) % ny))])

\* A faulty variant of squared_block_origin: a block of a sub-block's tiling
\* keeps the tile's own origin.
tile_origin(from, origin) == origin

\* The origin a block of a tiling gets: for a Square source the tile's own
\* origin, for a SquaredBlock source the tile's origin moved by the source's.
squared_block_origin(source, origin) ==
    IF source.kind = "block" THEN Coords_add(origin, source.origin) ELSE origin

\* as_inner: the image the blocks of a tiling read from.
as_inner(source) == IF source.kind = "block" THEN source.image ELSE source

\* IntoSquaredBlocks::squared_blocks for &Square<I> and &SquaredBlock<I>
squared_blocks(source, size) ==
    LET r == create_blocks(get_size(source), size)
    IN IF r.tag # "Ok" THEN r
       ELSE Ok([k \in DOMAIN r.value |->
                   SquaredBlock(as_inner(source), size,
                                squared_block_origin(source, r.value[k].origin))])

(***************************************************************************)
(* Exact rationals <<p, q>>, q > 0, in lowest terms: the values of f64.    *)
(* The operations are functions, each reduced to lowest terms.             *)
(***************************************************************************)
Only(S) == CHOOSE x \in S : TRUE

Gcd[a \in Nat, b \in Nat] == IF b = 0 THEN a ELSE Gcd[b, a % b]

Rat[p \in Int, q \in Int] ==
    LET g == Gcd[Abs(p), Abs(q)]
    IN IF q < 0 THEN << (-p) \div g, (-q) \div g >> ELSE << p \div g, q \div g >>

Rationals == Int \X Int

RatInt[a \in Int] == << a, 1 >>

RatAdd[a \in Rationals, b \in Rationals] == Rat[a[1] * b[2] + b[1] * a[2], a[2] * b[2]]

RatSub[a \in Rationals, b \in Rationals] == Rat[a[1] * b[2] - b[1] * a[2], a[2] * b[2]]

RatMul[a \in Rationals, b \in Rationals] ==
    LET g1 == Gcd[Abs(a[1]), b[2]]
        g2 == Gcd[Abs(b[1]), a[2]]
    IN IF a[1] = 0 \/ b[1] = 0 THEN << 0, 1 >>
       ELSE << (a[1] \div g1) * (b[1] \div g2), (a[2] \div g2) * (b[2] \div g1) >>

RatDivInt[a \in Rationals, n \in Int] == Rat[a[1], a[2] * n]

RatLess[a \in Rationals, b \in Rationals] == a[1] * b[2] < b[1] * a[2]

RatAbs[a \in Rationals] == << Abs(a[1]), a[2] >>

\* f64::clamp(lo, hi)
RatClamp[a \in Rationals, lo \in Int, hi \in Int] ==
    IF a[1] < lo * a[2] THEN << lo, 1 >>
    ELSE IF a[1] > hi * a[2] THEN << hi, 1 >> ELSE a

\* `as i16` / `as u8` of an f64: truncation towards zero.
RatTrunc[a \in Rationals] == IF a[1] >= 0 THEN a[1] \div a[2] ELSE -((-a[1]) \div a[2])

IsPowerOfTwo[q \in Nat] == q = 1 \/ (q > 1 /\ q % 2 = 0 /\ IsPowerOfTwo[q \div 2])

\* The rational is an f64 (of the magnitudes of the model): nothing is rounded.
f64_exact(a) == IsPowerOfTwo[a[2]]

(***************************************************************************)
(* compress.rs: the mapping solver.                                        *)
(***************************************************************************)
PixelMax == 255

None == [tag |-> "None"]

Some(value) == [tag |-> "Some", value |-> value]

\* The five accumulators of the loop over the zipped pixels.
mapping_sums(dp, rp) ==
    [domain_times_range_sum |-> SumSeq([k \in 1 .. Min(Len(dp), Len(rp)) |-> dp[k] * rp[k]]),
     domain_squared_sum     |-> SumSeq([k \in 1 .. Min(Len(dp), Len(rp)) |-> dp[k] * dp[k]]),
     range_squared_sum      |-> SumSeq([k \in 1 .. Min(Len(dp), Len(rp)) |-> rp[k] * rp[k]]),
     domain_sum             |-> SumSeq([k \in 1 .. Min(Len(dp), Len(rp)) |-> dp[k]]),
     range_sum              |-> SumSeq([k \in 1 .. Min(Len(dp), Len(rp)) |-> rp[k]])]

\* let denominator = n * domain_squared_sum - domain_sum_squared
mapping_denominator(n, a) == n * a.domain_squared_sum - a.domain_sum * a.domain_sum

\* let saturation = match denominator { 0.0 => 0.0, _ => ... }
mapping_saturation(n, a) ==
    IF mapping_denominator(n, a) = 0 THEN RatInt[0]
    ELSE Rat[n * a.domain_times_range_sum - a.domain_sum * a.range_sum,
             mapping_denominator(n, a)]

\* A faulty variant of mapping_brightness: the brightness is not clamped.
mapping_brightness_unclamped(n, a, saturation) ==
    IF mapping_denominator(n, a) = 0 THEN Rat[a.range_sum, n]
    ELSE RatDivInt[RatSub[RatInt[a.range_sum], RatMul[saturation, RatInt[a.domain_sum]]], n]

\* A faulty variant of mapping_brightness: for a flat domain the brightness
\* is the mean of the domain.
mapping_brightness_of_domain(n, a, saturation) ==
    IF mapping_denominator(n, a) = 0
    THEN RatClamp[Rat[a.domain_sum, n], 0, PixelMax]
    ELSE RatClamp[RatDivInt[RatSub[RatInt[a.range_sum],
                                   RatMul[saturation, RatInt[a.domain_sum]]], n],
                  0, PixelMax]

\* let brightness = match denominator { ... }.clamp(0.0, 255.0)
mapping_brightness(n, a, saturation) ==
    IF mapping_denominator(n, a) = 0
    THEN RatClamp[Rat[a.range_sum, n], 0, PixelMax]
    ELSE RatClamp[RatDivInt[RatSub[RatInt[a.range_sum],
                                   RatMul[saturation, RatInt[a.domain_sum]]], n],
                  0, PixelMax]

\* The squared error: the code's `error`, whose square root is the RMS error.
mapping_error(n, a, saturation, brightness) ==
    RatDivInt[
        RatAdd[RatAdd[RatInt[a.range_squared_sum],
                      RatMul[saturation,
                             RatAdd[RatSub[RatMul[saturation, RatInt[a.domain_squared_sum]],
                                           RatInt[2 * a.domain_times_range_sum]],
                                    RatMul[RatInt[2 * a.domain_sum], brightness]]]],
               RatMul[brightness,
                      RatSub[RatMul[RatInt[n], brightness], RatInt[2 * a.range_sum]]]],
        n]

\* A faulty variant of saturation_rejected: no saturation is rejected.
never_rejected(saturation) == FALSE

\* if saturation.abs() > 1.0 { return None }
saturation_rejected(saturation) == RatLess[RatInt[1], RatAbs[saturation]]

\* brightness as i16: the truncation of the computed brightness.  A rounded
\* computation of an exact positive integer may land just below it.
brightness_as_i16(saturation, brightness) ==
    IF f64_exact(saturation) \/ brightness[2] # 1 \/ brightness[1] = 0
    THEN << RatTrunc[brightness] >>
    ELSE << RatTrunc[brightness], RatTrunc[brightness] - 1 >>

\* The Option<Mapping> built from the computed values.  error_squared stands
\* for the field `error`, which holds its square root; brightness lists the
\* values the field can take, the exact one first; rounded tells that the
\* f64 computation of the error was not exact.
mapping_result(saturation, brightness, error) ==
    IF saturation_rejected(saturation) THEN None
    ELSE Some([error_squared |-> error,
               brightness |-> brightness_as_i16(saturation, brightness),
               saturation |-> saturation,
               rounded |-> ~(f64_exact(saturation) /\ f64_exact(brightness))])

\* Mapping::compute on the pixel sequences of the two views (n pixels each).
\* Each intermediate value is computed once and bound.
mapping_compute_pixels(n, dp, rp) ==
    Only(UNION {UNION {UNION {
        { mapping_result(s, o, e) : e \in {mapping_error(n, a, s, o)} } :
            o \in {mapping_brightness(n, a, s)} } :
            s \in {mapping_saturation(n, a)} } :
            a \in {mapping_sums(dp, rp)} })

\* Mapping::compute
Mapping_compute(domain, range) ==
    Only({ mapping_compute_pixels(Len(dp), dp, rp) :
              dp \in {pixels(domain)}, rp \in {pixels(range)} })

(***************************************************************************)
(* model: Transformation, Compressed.                                      *)
(***************************************************************************)
Transformation(range, domain, rotation, brightness, saturation) ==
    [range |-> range, domain |-> domain, rotation |-> rotation,
     brightness |-> brightness, saturation |-> saturation]

Compressed(size, transformations) == [size |-> size, transformations |-> transformations]

(***************************************************************************)
(* compress/quadtree.rs: Transformation::find.                             *)
(***************************************************************************)
DefaultErrorThreshold == 5

\* mapping.error < acceptable_error, on the squares, in exact arithmetic.
error_below(mapping, acceptable_error) ==
    /\ acceptable_error > 0
    /\ RatLess[mapping.error_squared, RatInt[acceptable_error * acceptable_error]]

\* The values mapping.error < acceptable_error can take in f64.
error_verdicts(mapping, acceptable_error) ==
    IF /\ acceptable_error > 0
       /\ mapping.rounded
       /\ \/ mapping.error_squared[1] = 0
          \/ mapping.error_squared = RatInt[acceptable_error * acceptable_error]
    THEN {TRUE, FALSE}
    ELSE {error_below(mapping, acceptable_error)}

\* A faulty variant of find_candidates: the domain blocks are not rotated.
find_candidates_unrotated(domain_blocks) ==
    [k \in DOMAIN domain_blocks |-> rot(downscale_2x2(domain_blocks[k]), "By0")]

\* domain_blocks.map(downscale_2x2).map(all_rotations).flatten()
find_candidates(domain_blocks) ==
    Flatten([k \in DOMAIN domain_blocks |-> all_rotations(downscale_2x2(domain_blocks[k]))])

\* A faulty variant of find_transformation: the domain block is given the
\* range block's size.
find_transformation_range_sized(db, range_block, brightness, saturation) ==
    Transformation(Block(range_block.size, range_block.origin),
                   Block(range_block.size, db.image.image.origin),
                   db.rotation, brightness, saturation)

\* The transformation built from a winning (db, mapping).
find_transformation(db, range_block, brightness, saturation) ==
    Transformation(Block(range_block.size, range_block.origin),
                   Block(db.image.image.size, db.image.image.origin),
                   db.rotation, brightness, saturation)

\* What one candidate gives: no mapping (None, dropped by the filter), or
\* whether the mapping passes the threshold (exactly, and in f64) with the
\* transformations it can be emitted as (the exact one first).
find_candidate(db, range_block, error_threshold) ==
    Only({ IF mapping.tag = "None" THEN None
           ELSE Some([accepted |-> error_below(mapping.value, error_threshold),
                      verdicts |-> error_verdicts(mapping.value, error_threshold),
                      transformations |->
                          [i \in DOMAIN mapping.value.brightness |->
                              find_transformation(db, range_block,
                                                  mapping.value.brightness[i],
                                                  mapping.value.saturation)]]) :
              mapping \in {Mapping_compute(db, range_block)} })

\* The outcome of every candidate, in iteration order.
find_outcomes(domain_blocks, range_block, error_threshold) ==
    Only({ [k \in DOMAIN cands |-> find_candidate(cands[k], range_block, error_threshold)] :
              cands \in {find_candidates(domain_blocks)} })

\* A faulty variant of find_winners: every candidate with a mapping can be
\* returned, whatever its error.
find_winners_any_error(outcomes) ==
    {k \in DOMAIN outcomes : outcomes[k].tag = "Some"}

\* The candidates find_any can return: a mapping was computed and can pass.
find_winners(outcomes) ==
    {k \in DOMAIN outcomes : outcomes[k].tag = "Some" /\ TRUE \in outcomes[k].value.verdicts}

\* A faulty variant of find_can_fail: find_any may miss a match.
find_may_miss(outcomes) == TRUE

\* find_any can return None: every mapping that was computed can fail.
find_can_fail(outcomes) ==
    \A k \in DOMAIN outcomes : outcomes[k].tag = "Some" => FALSE \in outcomes[k].value.verdicts

\* The candidates that pass in exact arithmetic.
find_exact_winners(outcomes) ==
    {k \in DOMAIN outcomes : outcomes[k].tag = "Some" /\ outcomes[k].value.accepted}

\* The candidates the filter dropped: Mapping::compute returned None.
find_rejected(outcomes) == {k \in DOMAIN outcomes : outcomes[k].tag = "None"}

\* The first element in iteration order, 0 for none.
first_of(S) == IF S = {} THEN 0 ELSE CHOOSE k \in S : \A j \in S : k <= j

(***************************************************************************)
(* The state.                                                              *)
(***************************************************************************)
VARIABLES
    \* --- the tiler, driven alone (image/block.rs)
    source,            \* the view being tiled: a Square image or a SquaredBlock
    tiling,            \* the last squared_blocks request: its size and result
    \* --- the encoder (compress/quadtree.rs): Compressor and its workers
    image,             \* Compressor.image
    error_threshold,   \* Compressor.error_threshold (RmsAnyLowerThan)
    progress_fn,       \* Compressor.progress_fn is Some
    area_covered,      \* Stats.area_covered
    reported,          \* the StatsReporting last passed to progress_fn, and by which call
    tasks,             \* the calls of find_transformations_recursive, by path
    queue,             \* the calls not yet started, in the order they are taken
    workers,           \* what each worker thread is running
    picks,             \* searches so far that ended otherwise than exact arithmetic's first match
    returned,          \* what compress returned, once it has
    \* --- the binary codec (persistence/binary_v1.rs)
    compressed,        \* the Compressed given to serialize
    serialized,        \* what serialize returned
    wire,              \* the bytes handed to deserialize: the serialized ones, or what is left of them
    deserialized,      \* what deserialize returned on the bytes of the wire
    \* --- the decoder (decompress.rs)
    decoding,          \* the Compressed given to decompress
    options,           \* Options: iterations, keep_each_iteration
    raster,            \* decompress's `image`: the one mutable raster
    previous_pass,     \* the snapshot the current iteration reads
    image_per_iteration, \* the rasters kept, if keep_each_iteration
    pass,              \* the iterations completed
    next,              \* the index of the transformation to apply next
    pc,                \* where decompress is: "loop", "apply", "returned", "panicked"
    seed,              \* the raster OwnedImage::random produced
    iteration_start,   \* the raster as it was when the current iteration began
    \* --- the image views and the metrics (image/rotate.rs, image/downscale.rs, metrics.rs)
    view,              \* an image with the views put on it so far
    sample,            \* the last pixel read from the view: where, and what came back
    measured,          \* the last comparison of the view with an image: mse and psnr
    fitted,            \* what Mapping::compute returned for the view as domain and an image as range
    \* --- the block indices (model/block.rs)
    self_block,        \* the Block whose indices are asked for
    yielded            \* the last call of indices: the image's width and height, and the items

tilVars == << source, tiling >>

encVars == << image, error_threshold, progress_fn, area_covered, reported,
              tasks, queue, workers, picks, returned >>

codVars == << compressed, serialized, wire, deserialized >>

decVars == << decoding, options, raster, previous_pass, image_per_iteration,
              pass, next, pc, seed, iteration_start >>

viewVars == << view, sample, measured, fitted >>

idxVars == << self_block, yielded >>

vars == << tilVars, encVars, codVars, decVars, viewVars, idxVars >>

(***************************************************************************)
(* The images the encoder is run on: OwnedImage rasters of a few patterns. *)
(***************************************************************************)
MaxSide == 4

NumWorkers == 2

PickBudget == 1

Sides == (1 .. MaxSide) \cup {10}

Patterns == {"flat", "weave", "ramp", "edge", "dots", "corner"}

Thresholds == {0, 1}

pattern_pixel(pattern, side, x, y) ==
    CASE pattern = "flat"   -> 2
      [] pattern = "weave"  -> IF 2 * x >= side /\ 2 * y >= side
                               THEN 3 * ((x + y) % 2) ELSE 2
      [] pattern = "ramp"   -> (x + y) % 4
      [] pattern = "edge"   -> IF 2 * x < side THEN 0 ELSE 3
      [] pattern = "dots"   -> IF x % 2 = 0 /\ y % 2 = 0 THEN 3 ELSE (x \div 2) % 2
      [] pattern = "corner" -> IF x = side - 1 /\ y = side - 1 THEN 3
                               ELSE IF x = side - 2 /\ y = side - 1 THEN 1
                               ELSE IF 2 * x = side - 2 /\ 2 * y = side - 2 THEN 2
                               ELSE 0

pattern_image(pattern, side) ==
    OwnedImage(Size_squared(side),
               [k \in 1 .. side * side |->
                   pattern_pixel(pattern, side, (k - 1) % side, (k - 1) \div side)])

Images == {pattern_image(p, n) : p \in Patterns, n \in Sides}

(***************************************************************************)
(* compress/quadtree.rs: Compressor.                                       *)
(*                                                                         *)
(* A call of find_transformations_recursive is a task, named by its path:  *)
(* <<k>> is the call on the k-th initial range block, p \o <<k>> the call  *)
(* on the k-th quadrant of p's range block.  pc is "queued", "report"      *)
(* (match found, fetch_add next), "callback" (progress_fn next), "join"    *)
(* (waiting for the children), "done" or "skipped" (never started: a       *)
(* sibling had failed before).                                             *)
(***************************************************************************)
Idle == <<0>>

NotReturned == [tag |-> "Running"]

NewCompressor == [tag |-> "New"]

\* rejected counts the candidates of the call's search that Mapping::compute
\* gave no mapping for; error holds the tiling error the call met, if any.
new_task(rb) ==
    [rb |-> rb, pc |-> "queued", result |-> None, children |-> 0, error |-> None,
     rejected |-> 0]

children_of(ts, p) == [k \in 1 .. ts[p].children |-> p \o <<k>>]

finished(t) == t.pc \in {"done", "skipped"}

\* A faulty variant of collect_results: the Ok results are kept and the
\* errors dropped.
collect_results_dropping_errors(results) ==
    LET oks == SelectSeq(results, LAMBDA r : r.tag = "Ok")
    IN Ok(Flatten([k \in DOMAIN oks |-> oks[k].value]))

\* A faulty variant of collect_results: only the first call's transformations
\* are kept.
collect_results_first_only(results) ==
    LET errs == SelectSeq(results, LAMBDA r : r.tag = "Err")
        oks  == SelectSeq(results, LAMBDA r : r.tag = "Ok")
    IN IF errs # <<>> THEN errs[1]
       ELSE Ok(IF oks = <<>> THEN <<>> ELSE oks[1].value)

\* collect::<Result<Vec<_>, CompressionError>>()?.into_iter().flatten().collect()
collect_results(results) ==
    LET errs == SelectSeq(results, LAMBDA r : r.tag = "Err")
        oks  == SelectSeq(results, LAMBDA r : r.tag = "Ok")
    IN IF errs # <<>> THEN errs[1]
       ELSE Ok(Flatten([k \in DOMAIN oks |-> oks[k].value]))

\* The task p returns `result`; a parent whose last child this was returns too.
RECURSIVE finish(_, _, _)
finish(ts, p, result) ==
    LET ts1 == [ts EXCEPT ![p].pc = IF result.tag = "Skipped" THEN "skipped" ELSE "done",
                          ![p].result = result]
        q   == SubSeq(p, 1, Len(p) - 1)
        sib == children_of(ts1, q)
    IN IF Len(p) <= 1 THEN ts1
       ELSE IF \A k \in DOMAIN sib : finished(ts1[sib[k]])
            THEN finish(ts1, q, collect_results([k \in DOMAIN sib |-> ts1[sib[k]].result]))
            ELSE ts1

Skipped == [tag |-> "Skipped"]

\* Stats::new(image.get_height()).image_size_squared
image_size_squared == get_height(image) * get_height(image)

\* with_error_threshold
with_error_threshold(t) ==
    /\ returned = NewCompressor
    /\ error_threshold' = t
    /\ UNCHANGED << image, progress_fn, area_covered, reported, tasks, queue,
                    workers, picks, returned >>
    /\ UNCHANGED << tilVars, codVars, decVars, viewVars, idxVars >>

\* with_progress_reporter
with_progress_reporter ==
    /\ returned = NewCompressor
    /\ progress_fn' = TRUE
    /\ UNCHANGED << image, error_threshold, area_covered, reported, tasks, queue,
                    workers, picks, returned >>
    /\ UNCHANGED << tilVars, codVars, decVars, viewVars, idxVars >>

\* compress, up to the start of the parallel map over the initial range blocks.
compress ==
    /\ returned = NewCompressor
    /\ LET domain_block_size == get_height(image)
           range_block_size  == get_height(image) \div 2
           domain_blocks     == squared_blocks(image, domain_block_size)
           range_blocks      == squared_blocks(image, range_block_size)
       IN IF domain_blocks.tag # "Ok"
          THEN /\ returned' = domain_blocks
               /\ UNCHANGED << tasks, queue >>
          ELSE IF range_blocks.tag # "Ok"
          THEN /\ returned' = range_blocks
               /\ UNCHANGED << tasks, queue >>
          ELSE /\ returned' = NotReturned
               /\ tasks' = [p \in {<<k>> : k \in DOMAIN range_blocks.value} |->
                               new_task(range_blocks.value[p[1]])]
               /\ queue' = [k \in DOMAIN range_blocks.value |-> <<k>>]
    /\ UNCHANGED << image, error_threshold, progress_fn, area_covered, reported,
                    workers, picks >>
    /\ UNCHANGED << tilVars, codVars, decVars, viewVars, idxVars >>

\* find_any returns whichever match a thread finds first, and a rounded f64
\* computation can fall on either side of a boundary.  The model lets a
\* search end otherwise than with the first match of exact arithmetic
\* PickBudget times in a run without a progress reporter.
may_pick_other == picks < PickBudget /\ ~progress_fn

\* The call p returns the tiling error it met.
search_failed(p, err) ==
    /\ tasks' = finish([tasks EXCEPT ![p].error = err], p, err)
    /\ queue' = Tail(queue)
    /\ UNCHANGED workers

\* Some(transformation): with a reporter the worker goes on to the fetch_add,
\* without one the call returns Ok(vec![transformation]).
search_matched(w, p, transformation, rejected) ==
    /\ queue' = Tail(queue)
    /\ IF progress_fn
       THEN /\ tasks' = [tasks EXCEPT ![p].pc = "report",
                                      ![p].result = Ok(<< transformation >>),
                                      ![p].rejected = rejected]
            /\ workers' = [workers EXCEPT ![w] = p]
       ELSE /\ tasks' = finish([tasks EXCEPT ![p].rejected = rejected], p,
                               Ok(<< transformation >>))
            /\ UNCHANGED workers

\* A faulty variant of search_unmatched: the block is tiled into blocks of
\* its own side.
search_unmatched_same_side(p, rejected) ==
    IF get_height(tasks[p].rb) <= 1
    THEN /\ tasks' = finish([tasks EXCEPT ![p].rejected = rejected], p, Ok(<<>>))
         /\ queue' = Tail(queue)
         /\ UNCHANGED workers
    ELSE \E sub \in {squared_blocks(tasks[p].rb, get_height(tasks[p].rb))} :
            IF sub.tag = "Err"
            THEN search_failed(p, sub)
            ELSE /\ tasks' =
                      [q \in DOMAIN tasks \cup {p \o <<k>> : k \in DOMAIN sub.value} |->
                          IF q \in DOMAIN tasks
                          THEN IF q = p
                               THEN [tasks[p] EXCEPT !.pc = "join",
                                                     !.children = Len(sub.value),
                                                     !.rejected = rejected]
                               ELSE tasks[q]
                          ELSE new_task(sub.value[q[Len(q)]])]
                 /\ queue' = [k \in DOMAIN sub.value |-> p \o <<k>>] \o Tail(queue)
                 /\ UNCHANGED workers

\* None: a block of height <= 1 returns Ok(vec![]), a larger one is tiled into
\* quadrants and a call is forked for each.
search_unmatched(p, rejected) ==
    IF get_height(tasks[p].rb) <= 1
    THEN /\ tasks' = finish([tasks EXCEPT ![p].rejected = rejected], p, Ok(<<>>))
         /\ queue' = Tail(queue)
         /\ UNCHANGED workers
    ELSE \E sub \in {squared_blocks(tasks[p].rb, get_height(tasks[p].rb) \div 2)} :
            IF sub.tag = "Err"
            THEN search_failed(p, sub)
            ELSE /\ tasks' =
                      [q \in DOMAIN tasks \cup {p \o <<k>> : k \in DOMAIN sub.value} |->
                          IF q \in DOMAIN tasks
                          THEN IF q = p
                               THEN [tasks[p] EXCEPT !.pc = "join",
                                                     !.children = Len(sub.value),
                                                     !.rejected = rejected]
                               ELSE tasks[q]
                          ELSE new_task(sub.value[q[Len(q)]])]
                 /\ queue' = [k \in DOMAIN sub.value |-> p \o <<k>>] \o Tail(queue)
                 /\ UNCHANGED workers

\* A worker takes the next call of find_transformations_recursive and runs it
\* up to its return, its fetch_add, or the fork of its four children.
Search(w) ==
    /\ returned = NotReturned
    /\ workers[w] = Idle
    /\ \A v \in 1 .. w - 1 : workers[v] # Idle
    /\ queue # <<>>
    /\ \E p \in {Head(queue)} :
       \E domain_blocks \in {squared_blocks(image, 2 * tasks[p].rb.size)} :
          IF domain_blocks.tag = "Err"
          THEN search_failed(p, domain_blocks) /\ UNCHANGED picks
          ELSE \E outcomes \in {find_outcomes(domain_blocks.value, tasks[p].rb, error_threshold)} :
               \E first \in {first_of(find_exact_winners(outcomes))} :
                  \/ \E k \in find_winners(outcomes) :
                     \E i \in DOMAIN outcomes[k].value.transformations :
                        /\ (k = first /\ i = 1) \/ may_pick_other
                        /\ picks' = IF k = first /\ i = 1 THEN picks ELSE picks + 1
                        /\ search_matched(w, p, outcomes[k].value.transformations[i],
                                          Cardinality(find_rejected(outcomes)))
                  \/ /\ find_can_fail(outcomes)
                     /\ first = 0 \/ may_pick_other
                     /\ picks' = IF first = 0 THEN picks ELSE picks + 1
                     /\ search_unmatched(p, Cardinality(find_rejected(outcomes)))
    /\ UNCHANGED << image, error_threshold, progress_fn, area_covered, reported, returned >>
    /\ UNCHANGED << tilVars, codVars, decVars, viewVars, idxVars >>

\* A faulty variant of report_block_mapped: the side of the block is added,
\* not its area.
report_block_mapped_side(w) ==
    /\ workers[w] # Idle
    /\ tasks[workers[w]].pc = "report"
    /\ area_covered' = area_covered + get_height(tasks[workers[w]].rb)
    /\ tasks' = [tasks EXCEPT ![workers[w]].pc = "callback"]
    /\ UNCHANGED << image, error_threshold, progress_fn, reported, queue, workers,
                    picks, returned >>
    /\ UNCHANGED << tilVars, codVars, decVars, viewVars, idxVars >>

\* self.stats.report_block_mapped(rb.get_height()): the fetch_add
report_block_mapped(w) ==
    /\ workers[w] # Idle
    /\ tasks[workers[w]].pc = "report"
    /\ LET range_block_size == get_height(tasks[workers[w]].rb)
       IN area_covered' = area_covered + range_block_size * range_block_size
    /\ tasks' = [tasks EXCEPT ![workers[w]].pc = "callback"]
    /\ UNCHANGED << image, error_threshold, progress_fn, reported, queue, workers,
                    picks, returned >>
    /\ UNCHANGED << tilVars, codVars, decVars, viewVars, idxVars >>

\* A faulty variant of report: the snapshot misses the block whose acceptance
\* triggered the call.
report_without_own_block(w) ==
    /\ workers[w] # Idle
    /\ tasks[workers[w]].pc = "callback"
    /\ reported' = Some([area_covered |-> area_covered
                                           - get_height(tasks[workers[w]].rb)
                                             * get_height(tasks[workers[w]].rb),
                          total_area |-> image_size_squared,
                          by |-> workers[w]])
    /\ tasks' = finish(tasks, workers[w], tasks[workers[w]].result)
    /\ workers' = [workers EXCEPT ![w] = Idle]
    /\ UNCHANGED << image, error_threshold, progress_fn, area_covered, queue,
                    picks, returned >>
    /\ UNCHANGED << tilVars, codVars, decVars, viewVars, idxVars >>

\* progress_fn(self.stats.report()): the load, the call, and the return Ok(vec![t])
report(w) ==
    /\ workers[w] # Idle
    /\ tasks[workers[w]].pc = "callback"
    /\ reported' = Some([area_covered |-> area_covered,
                          total_area |-> image_size_squared,
                          by |-> workers[w]])
    /\ tasks' = finish(tasks, workers[w], tasks[workers[w]].result)
    /\ workers' = [workers EXCEPT ![w] = Idle]
    /\ UNCHANGED << image, error_threshold, progress_fn, area_covered, queue,
                    picks, returned >>
    /\ UNCHANGED << tilVars, codVars, decVars, viewVars, idxVars >>

\* A call that was not started when a sibling returned an error is dropped:
\* the collect into a Result stops taking items once an error is stored.
skip ==
    /\ returned = NotReturned
    /\ queue # <<>>
    /\ LET p   == Head(queue)
           q   == SubSeq(p, 1, Len(p) - 1)
           sib == {r \in DOMAIN tasks : Len(r) = Len(p) /\ SubSeq(r, 1, Len(r) - 1) = q}
       IN /\ \E r \in sib : tasks[r].pc = "done" /\ tasks[r].result.tag = "Err"
          /\ tasks' = finish(tasks, p, Skipped)
          /\ queue' = Tail(queue)
    /\ UNCHANGED << image, error_threshold, progress_fn, area_covered, reported,
                    workers, picks, returned >>
    /\ UNCHANGED << tilVars, codVars, decVars, viewVars, idxVars >>

top_tasks == {p \in DOMAIN tasks : Len(p) = 1}

\* compress returns: the collect over the initial range blocks.
compress_return ==
    /\ returned = NotReturned
    /\ \A p \in top_tasks : finished(tasks[p])
    /\ LET r == collect_results([k \in 1 .. Cardinality(top_tasks) |-> tasks[<<k>>].result])
       IN returned' = IF r.tag = "Err" THEN r
                      ELSE Ok(Compressed(get_size(image), r.value))
    /\ UNCHANGED << image, error_threshold, progress_fn, area_covered, reported,
                    tasks, queue, workers, picks >>
    /\ UNCHANGED << tilVars, codVars, decVars, viewVars, idxVars >>

(***************************************************************************)
(* image/block.rs, driven alone: a square image is tiled, one of the       *)
(* blocks is taken as the next source and tiled again.  A panic ends the   *)
(* program.                                                                *)
(***************************************************************************)
TileSources == {FakeImage(Size_squared(n)) : n \in 1 .. MaxTileSide}

\* source.squared_blocks(size)
squared_blocks_request(size) ==
    /\ tiling.tag = "Some" => tiling.value.result.tag # "Panic"
    /\ tiling' = Some([size |-> size, result |-> squared_blocks(source, size)])
    /\ UNCHANGED source
    /\ UNCHANGED << encVars, codVars, decVars, viewVars, idxVars >>

\* The k-th block of the tiling becomes the source of the next request.
into_squared_block(k) ==
    /\ tiling.tag = "Some"
    /\ tiling.value.result.tag = "Ok"
    /\ k \in DOMAIN tiling.value.result.value
    /\ source' = tiling.value.result.value[k]
    /\ tiling' = None
    /\ UNCHANGED << encVars, codVars, decVars, viewVars, idxVars >>

TilNext ==
    \/ \E size \in 0 .. MaxTileSide + 1 :
          size <= get_height(source) + 1 /\ squared_blocks_request(size)
    \/ \E k \in 1 .. MaxTileSide * MaxTileSide : into_squared_block(k)

(***************************************************************************)
(* persistence/binary_v1.rs: the bytes.  Integers are written little       *)
(* endian; an f64 of the model (a dyadic rational with a short mantissa)   *)
(* by its IEEE 754 binary64 encoding: sign, 11 exponent bits biased by     *)
(* 1023, 52 fraction bits of which only the upper 12 are ever set.         *)
(*                                                                         *)
(* A u32 below 2^31 is the integer itself; a u32 of 2^31 or more is held   *)
(* as the negative integer with the same 32 bits, v - 2^32.  A u32         *)
(* multiplication that overflows panics in a build with overflow checks    *)
(* (debug) and wraps in a build without (release).                         *)
(***************************************************************************)
MaxTransformations == 3

\* 2^30
u32_quarter == 1073741824

\* 2 * v does not fit a u32: v >= 2^31
u32_mul2_overflows(v) == v < 0

\* 2 * v modulo 2^32
u32_mul2(v) ==
    IF v >= u32_quarter THEN 2 * ((v - u32_quarter) - u32_quarter)
    ELSE IF v < -u32_quarter THEN 2 * ((v + u32_quarter) + u32_quarter)
    ELSE 2 * v

IO(kind) == [kind |-> "IO", error |-> kind]

write_u32(v) == << v % 256, (v \div 256) % 256, (v \div 65536) % 256, (v \div 16777216) % 256 >>

write_u8(v) == << v % 256 >>

\* two's complement
write_i16(v) ==
    Only({ << u % 256, u \div 256 >> : u \in {IF v < 0 THEN v + 65536 ELSE v} })

Pow2[k \in Nat] == IF k = 0 THEN 1 ELSE 2 * Pow2[k - 1]

\* floor(log2 m), m >= 1
Log2[m \in Nat] == IF m <= 1 THEN 0 ELSE 1 + Log2[m \div 2]

f64_bias == 1023

f64_fraction_bits == 12

\* The biased exponent and the upper fraction bits of m / q (m >= 1, q = 2^k).
f64_exponent(m, q) == Log2[m] - Log2[q] + f64_bias

f64_fraction(m) == (m - Pow2[Log2[m]]) * Pow2[f64_fraction_bits - Log2[m]]

write_f64(v) ==
    IF v[1] = 0 THEN << 0, 0, 0, 0, 0, 0, 0, 0 >>
    ELSE Only({ << 0, 0, 0, 0, 0,
                   f % 256,
                   (e % 16) * 16 + f \div 256,
                   (IF v[1] < 0 THEN 128 ELSE 0) + e \div 16 >> :
                   e \in {f64_exponent(Abs(v[1]), v[2])},
                   f \in {f64_fraction(Abs(v[1]))} })

\* The reads: Ok(value), or the UnexpectedEof of read_exact.
read_u32(bytes, pos) ==
    IF pos + 3 > Len(bytes) THEN Err(IO("UnexpectedEof"))
    ELSE Ok(bytes[pos] + 256 * bytes[pos + 1] + 65536 * bytes[pos + 2]
            + 16777216 * (IF bytes[pos + 3] >= 128 THEN bytes[pos + 3] - 256
                          ELSE bytes[pos + 3]))

read_u8(bytes, pos) ==
    IF pos > Len(bytes) THEN Err(IO("UnexpectedEof")) ELSE Ok(bytes[pos])

read_i16(bytes, pos) ==
    IF pos + 1 > Len(bytes) THEN Err(IO("UnexpectedEof"))
    ELSE Only({ Ok(IF u >= 32768 THEN u - 65536 ELSE u) :
                   u \in {bytes[pos] + 256 * bytes[pos + 1]} })

\* The f64 of 8 bytes; a bit pattern outside the model's values (a nonzero
\* low fraction, a subnormal, an infinity, a NaN, -0.0) is kept as its bytes.
f64_from_bits(b) ==
    Only({ IF e = 0 /\ f = 0 /\ b[8] < 128 /\ low = 0 THEN << 0, 1 >>
           ELSE IF low # 0 \/ e = 0 \/ e = 2047 \/ e < f64_bias - 16 \/ e > f64_bias + 16
                THEN [bits |-> b]
           ELSE Only({ IF x >= 0 THEN Rat[m * Pow2[x], 1] ELSE Rat[m, Pow2[-x]] :
                          m \in {(IF b[8] >= 128 THEN -1 ELSE 1) * (Pow2[f64_fraction_bits] + f)},
                          x \in {e - f64_bias - f64_fraction_bits} }) :
              e \in {(b[8] % 128) * 16 + b[7] \div 16},
              f \in {(b[7] % 16) * 256 + b[6]},
              low \in {b[1] + b[2] + b[3] + b[4] + b[5]} })

read_f64(bytes, pos) ==
    IF pos + 7 > Len(bytes) THEN Err(IO("UnexpectedEof"))
    ELSE Ok(f64_from_bits(SubSeq(bytes, pos, pos + 7)))

\* impl From<Rotation> for u8, impl TryFrom<u8> for Rotation
Rotation_into_u8(rotation) ==
    CASE rotation = "By0" -> 0 [] rotation = "By90" -> 1
      [] rotation = "By180" -> 2 [] rotation = "By270" -> 3

\* A faulty variant of Rotation_try_from: only the two low bits are looked at.
Rotation_try_from_low_bits(value) ==
    CASE value % 4 = 0 -> Ok("By0") [] value % 4 = 1 -> Ok("By90")
      [] value % 4 = 2 -> Ok("By180") [] OTHER -> Ok("By270")

Rotation_try_from(value) ==
    CASE value = 0 -> Ok("By0") [] value = 1 -> Ok("By90")
      [] value = 2 -> Ok("By180") [] value = 3 -> Ok("By270")
      [] OTHER -> Err([kind |-> "InvalidRotation", code |-> value])

(***************************************************************************)
(* persistence/binary_v1.rs: serialize.                                    *)
(***************************************************************************)
EntryChild(rb_origin, db_origin, rotation, brightness, saturation) ==
    [rb_origin |-> rb_origin, db_origin |-> db_origin, rotation |-> rotation,
     brightness |-> brightness, saturation |-> saturation]

EntryChild_size == 27

EntryChild_serialize(child) ==
    write_u32(child.rb_origin.x) \o write_u32(child.rb_origin.y)
    \o write_u32(child.db_origin.x) \o write_u32(child.db_origin.y)
    \o write_u8(child.rotation) \o write_i16(child.brightness)
    \o write_f64(child.saturation)

Entry_serialize(entries) ==
    write_u32(Len(entries))
    \o Flatten([i \in DOMAIN entries |-> EntryChild_serialize(entries[i])])

\* A faulty variant of entry_push: the entry is put in front of its group.
entry_push_front(entries, t) ==
    << EntryChild(t.range.origin, t.domain.origin,
                  Rotation_into_u8(t.rotation), t.brightness, t.saturation) >> \o entries

\* rb_entry.entries.push(EntryChild { .. })
entry_push(entries, t) ==
    Append(entries, EntryChild(t.range.origin, t.domain.origin,
                               Rotation_into_u8(t.rotation), t.brightness, t.saturation))

\* The domain block is twice the size of the range block, as numbers.
serializable(t) ==
    /\ ~u32_mul2_overflows(t.range.block_size)
    /\ t.domain.block_size = u32_mul2(t.range.block_size)

\* A faulty variant of block_size_check: every transformation passes.
block_size_unchecked(t, overflow_checks) == "ok"

\* if t.domain.block_size != 2 * t.range.block_size { return Err(..) }, the
\* product being a u32: "ok", "invalid", or the "panic" of the overflow.
block_size_check(t, overflow_checks) ==
    IF overflow_checks /\ u32_mul2_overflows(t.range.block_size) THEN "panic"
    ELSE IF t.domain.block_size # u32_mul2(t.range.block_size) THEN "invalid"
    ELSE "ok"

\* The map from range-block size to its Entry, or the first InvalidBlockSize,
\* or the panic of an overflow.
RECURSIVE generate_entries_from(_, _, _, _)
generate_entries_from(transformations, i, map, overflow_checks) ==
    IF i > Len(transformations) THEN Ok(map)
    ELSE IF block_size_check(transformations[i], overflow_checks) = "panic" THEN Panic
    ELSE IF block_size_check(transformations[i], overflow_checks) = "invalid"
    THEN Err([kind |-> "InvalidBlockSize",
              range_size |-> transformations[i].range.block_size,
              domain_size |-> transformations[i].domain.block_size])
    ELSE generate_entries_from(
             transformations, i + 1,
             [size \in DOMAIN map \cup {transformations[i].range.block_size} |->
                 IF size = transformations[i].range.block_size
                 THEN entry_push(IF size \in DOMAIN map THEN map[size] ELSE <<>>,
                                 transformations[i])
                 ELSE map[size]],
             overflow_checks)

generate_entries(c, overflow_checks) ==
    generate_entries_from(c.transformations, 1, << >>, overflow_checks)

\* The orders a map with these keys can be iterated in.
iteration_orders(keys) ==
    {order \in [1 .. Cardinality(keys) -> keys] :
        \A i, j \in DOMAIN order : i # j => order[i] # order[j]}

\* serialize, the FxHashMap being iterated in the given order of its keys.
serialize_in_order(c, map, order) ==
    write_u32(c.size.width) \o write_u32(c.size.height)
    \o Flatten([i \in DOMAIN order |-> write_u32(order[i]) \o Entry_serialize(map[order[i]])])

(***************************************************************************)
(* persistence/binary_v1.rs: deserialize.                                  *)
(***************************************************************************)
\* EntryChild::deserialize at pos, where EntryChild_size bytes are present.
EntryChild_deserialize(bytes, pos) ==
    EntryChild(Coords(read_u32(bytes, pos).value, read_u32(bytes, pos + 4).value),
               Coords(read_u32(bytes, pos + 8).value, read_u32(bytes, pos + 12).value),
               read_u8(bytes, pos + 16).value,
               read_i16(bytes, pos + 17).value,
               read_f64(bytes, pos + 19).value)

\* Entry::deserialize at pos: the entries and the position after them, or
\* the IO error of the read that ran out of bytes.
Entry_deserialize(bytes, pos) ==
    Only({ IF count.tag = "Err" THEN count
           ELSE IF \/ count.value < 0
                   \/ count.value > (Len(bytes) - (pos + 3)) \div EntryChild_size
                THEN Err(IO("UnexpectedEof"))
           ELSE Ok([entries |-> [i \in 1 .. count.value |->
                                    EntryChild_deserialize(bytes, pos + 4 + EntryChild_size * (i - 1))],
                    pos |-> pos + 4 + EntryChild_size * count.value]) :
              count \in {read_u32(bytes, pos)} })

\* A faulty variant of domain_size_of: the domain block is rebuilt with the
\* range block's size.
range_size_again(range_size) == range_size

\* domain: model::Block { block_size: 2 * range_size, .. }
domain_size_of(range_size) == u32_mul2(range_size)

\* The transformations of one group, or the panic of 2 * range_size
\* overflowing for the group's first entry, or the first InvalidRotation.
group_transformations(range_size, entries, overflow_checks) ==
    Only({ IF entries # <<>> /\ overflow_checks /\ u32_mul2_overflows(range_size)
           THEN Panic
           ELSE IF \E i \in DOMAIN rotations : rotations[i].tag = "Err"
           THEN rotations[first_of({i \in DOMAIN rotations : rotations[i].tag = "Err"})]
           ELSE Ok([i \in DOMAIN entries |->
                       Transformation(Block(range_size, entries[i].rb_origin),
                                      Block(domain_size_of(range_size), entries[i].db_origin),
                                      rotations[i].value,
                                      entries[i].brightness, entries[i].saturation)]) :
              rotations \in {[i \in DOMAIN entries |-> Rotation_try_from(entries[i].rotation)]} })

\* while let Ok(range_size) = reader.read_u32() { .. }
RECURSIVE deserialize_groups(_, _, _, _)
deserialize_groups(bytes, pos, transformations, overflow_checks) ==
    IF read_u32(bytes, pos).tag = "Err" THEN Ok(transformations)
    ELSE Only({ IF entry.tag = "Err" THEN entry
                ELSE Only({ IF group.tag # "Ok" THEN group
                            ELSE deserialize_groups(bytes, entry.value.pos,
                                                    transformations \o group.value,
                                                    overflow_checks) :
                               group \in {group_transformations(read_u32(bytes, pos).value,
                                                                entry.value.entries,
                                                                overflow_checks)} }) :
                   entry \in {Entry_deserialize(bytes, pos + 4)} })

\* deserialize: the two header reads are unwrapped.
deserialize_bytes(bytes, overflow_checks) ==
    IF read_u32(bytes, 1).tag = "Err" \/ read_u32(bytes, 5).tag = "Err" THEN Panic
    ELSE Only({ IF ts.tag # "Ok" THEN ts
                ELSE Ok(Compressed(Size_new(read_u32(bytes, 1).value,
                                            read_u32(bytes, 5).value), ts.value)) :
                   ts \in {deserialize_groups(bytes, 9, <<>>, overflow_checks)} })

\* Where the rotation bytes of a well-formed stream are, from the group at pos.
RECURSIVE rotation_positions(_, _)
rotation_positions(bytes, pos) ==
    IF read_u32(bytes, pos).tag = "Err" THEN {}
    ELSE Only({ IF entry.tag = "Err" THEN {}
                ELSE {pos + 8 + EntryChild_size * (i - 1) + 16 :
                         i \in DOMAIN entry.value.entries}
                     \cup rotation_positions(bytes, entry.value.pos) :
                   entry \in {Entry_deserialize(bytes, pos + 4)} })

(***************************************************************************)
(* The codec, run on lists of up to MaxTransformations transformations     *)
(* taken from a pool: two range-block sizes, every rotation code, negative *)
(* and out-of-u8 brightness, one whose domain is not twice its range, and  *)
(* one whose range-block size, 2^31 + 8, doubles to 16 modulo 2^32.  The   *)
(* bytes serialize returns reach deserialize whole, cut short, or with a   *)
(* rotation byte replaced.                                                 *)
(***************************************************************************)
TransformationPool ==
    { Transformation(Block(16, Coords(0, 0)), Block(32, Coords(32, 0)), "By0", -7, << 1, 2 >>),
      Transformation(Block(16, Coords(16, 0)), Block(32, Coords(0, 32)), "By270", 300, << -3, 4 >>),
      Transformation(Block(32, Coords(32, 32)), Block(64, Coords(0, 0)), "By90", 0, << 1, 1 >>),
      Transformation(Block(16, Coords(0, 16)), Block(16, Coords(300, 70000)), "By180", 1, << 0, 1 >>),
      Transformation(Block((8 - u32_quarter) - u32_quarter, Coords(0, 0)), Block(16, Coords(8, 8)),
                     "By0", 5, << 1, 4 >>) }

CodecSizes == {Size_new(123, 456), Size_squared(64)}

CodecInputs ==
    {Compressed(size, ts) : size \in CodecSizes,
                            ts \in UNION {[1 .. n -> TransformationPool] : n \in 0 .. MaxTransformations}}

\* serialize(&compressed)
serialize ==
    /\ serialized = None
    /\ \E overflow_checks \in BOOLEAN :
       \E map \in {generate_entries(compressed, overflow_checks)} :
          IF map.tag # "Ok" THEN serialized' = Some(map)
          ELSE \E order \in iteration_orders(DOMAIN map.value) :
                  serialized' = Some(Ok(serialize_in_order(compressed, map.value, order)))
    /\ UNCHANGED << compressed, wire, deserialized >>
    /\ UNCHANGED << tilVars, encVars, decVars, viewVars, idxVars >>

\* The serialized bytes are handed to deserialize as they are.
transmit ==
    /\ serialized.tag = "Some"
    /\ serialized.value.tag = "Ok"
    /\ wire = None
    /\ wire' = Some(serialized.value.value)
    /\ UNCHANGED << compressed, serialized, deserialized >>
    /\ UNCHANGED << tilVars, encVars, decVars, viewVars, idxVars >>

\* Only the first n of the serialized bytes are handed to deserialize.
truncate(n) ==
    /\ serialized.tag = "Some"
    /\ serialized.value.tag = "Ok"
    /\ wire = None
    /\ n < Len(serialized.value.value)
    /\ wire' = Some(SubSeq(serialized.value.value, 1, n))
    /\ UNCHANGED << compressed, serialized, deserialized >>
    /\ UNCHANGED << tilVars, encVars, decVars, viewVars, idxVars >>

\* The serialized bytes are handed to deserialize with the rotation byte of
\* one entry replaced by a byte that is no rotation code.
set_rotation_byte(pos, b) ==
    /\ serialized.tag = "Some"
    /\ serialized.value.tag = "Ok"
    /\ wire = None
    /\ pos \in rotation_positions(serialized.value.value, 9)
    /\ wire' = Some([serialized.value.value EXCEPT ![pos] = b])
    /\ UNCHANGED << compressed, serialized, deserialized >>
    /\ UNCHANGED << tilVars, encVars, decVars, viewVars, idxVars >>

\* deserialize(Cursor::new(bytes))
deserialize ==
    /\ wire.tag = "Some"
    /\ deserialized = None
    /\ \E overflow_checks \in BOOLEAN :
          deserialized' = Some(deserialize_bytes(wire.value, overflow_checks))
    /\ UNCHANGED << compressed, serialized, wire >>
    /\ UNCHANGED << tilVars, encVars, decVars, viewVars, idxVars >>

\* The bytes put in place of a rotation byte: the least and the greatest byte
\* that is no rotation code, and one on each side of the sign bit.
TamperedRotationBytes == {4, 127, 128, 255}

\* The longest stream serialize writes.
MaxStreamLen == 8 + MaxTransformations * (8 + EntryChild_size)

CodNext ==
    \/ serialize
    \/ transmit
    \/ \E n \in 0 .. MaxStreamLen : truncate(n)
    \/ \E pos \in 1 .. MaxStreamLen : \E b \in TamperedRotationBytes : set_rotation_byte(pos, b)
    \/ deserialize

(***************************************************************************)
(* model/block.rs and decompress.rs: the decoder.                          *)
(***************************************************************************)
MaxIterations == 2

\* A faulty variant of Block_indices: the coordinates start one column to
\* the right.
Block_indices_shifted(block, image_width, image_height) ==
    [k \in 1 .. block.block_size * block.block_size |->
        [index  |-> block.origin.y * image_width + block.origin.x
                    + image_height * ((k - 1) \div block.block_size)
                    + ((k - 1) % block.block_size),
         coords |-> Coords(block.origin.x + 1 + ((k - 1) % block.block_size),
                           block.origin.y + ((k - 1) \div block.block_size))]]

\* Block::indices: the (index, coords) pairs of the block, row by row.
Block_indices(block, image_width, image_height) ==
    [k \in 1 .. block.block_size * block.block_size |->
        [index  |-> block.origin.y * image_width + block.origin.x
                    + image_height * ((k - 1) \div block.block_size)
                    + ((k - 1) % block.block_size),
         coords |-> Coords(block.origin.x + ((k - 1) % block.block_size),
                           block.origin.y + ((k - 1) \div block.block_size))]]

\* (db_pixel as f64 * saturation + brightness as f64).min(255.0).max(0.0) as u8
\* The saturations the decoder is run on are dyadic: the f64 value is exact.
new_pixel_value(db_pixel, saturation, brightness) ==
    RatTrunc[RatClamp[RatAdd[RatMul[RatInt[db_pixel], saturation], RatInt[brightness]],
                      0, PixelMax]]

\* SquaredBlock { image: previous_pass, .. }.downscale_2x2().rot(self.rotation)
apply_domain_block(t, previous) ==
    rot(downscale_2x2(SquaredBlock(previous, t.domain.block_size, t.domain.origin)),
        t.rotation)

\* indices.zip(domain_block.pixels()): what is written where, read from where.
apply_zip(indices, domain_coords) ==
    [k \in 1 .. Min(Len(indices), Len(domain_coords)) |->
        [coords |-> indices[k].coords, from |-> domain_coords[k]]]

\* OwnedImage::set_pixel for every pair of the zip: the raster after the loop.
set_pixels(target, domain_block, zip, t) ==
    OwnedImage(target.size,
               [idx \in 1 .. area(target.size) |->
                   Only({ IF hit = {} THEN target.data[idx]
                          ELSE Only({ new_pixel_value(pixel(domain_block, zip[k].from.x,
                                                            zip[k].from.y),
                                                      t.saturation, t.brightness) :
                                         k \in hit }) :
                             hit \in {{k \in DOMAIN zip :
                                        zip[k].coords.y * target.size.width
                                        + zip[k].coords.x + 1 = idx}} })])

\* The loop of apply_to over the view of the source it reads: the raster
\* after it, or the panic of a read or write outside an image.
apply_loop(t, domain_block, target) ==
    Only({ IF \E k \in DOMAIN zip :
                 \/ ~pixel_in_bounds(domain_block, zip[k].from.x, zip[k].from.y)
                 \/ ~pixel_in_bounds(target, zip[k].coords.x, zip[k].coords.y)
           THEN Panic
           ELSE Ok(set_pixels(target, domain_block, zip, t)) :
              zip \in {apply_zip(Block_indices(t.range, get_width(target), get_height(target)),
                                 pixel_coords(domain_block))} })

\* A faulty variant of apply_to: the domain block is read from the raster
\* being written.
apply_to_in_place(t, previous, target) ==
    Only({ apply_loop(t, domain_block, target) :
              domain_block \in {apply_domain_block(t, target)} })

\* Transformation::apply_to
apply_to(t, previous, target) ==
    Only({ apply_loop(t, domain_block, target) :
              domain_block \in {apply_domain_block(t, previous)} })

\* for transformation in compressed.transformations.iter() { .. }, from the i-th
RECURSIVE apply_all(_, _, _, _)
apply_all(ts, i, previous, target) ==
    IF i > Len(ts) THEN Ok(target)
    ELSE Only({ IF r.tag = "Panic" THEN r ELSE apply_all(ts, i + 1, previous, r.value) :
                   r \in {apply_to(ts[i], previous, target)} })

\* for _ in 0..options.iterations { .. }: the raster decompress returns.
RECURSIVE decompress_image(_, _, _)
decompress_image(ts, iterations, start) ==
    IF iterations = 0 THEN Ok(start)
    ELSE Only({ IF r.tag = "Panic" THEN r
                ELSE decompress_image(ts, iterations - 1, r.value) :
                   r \in {apply_all(ts, 1, start, start)} })

(***************************************************************************)
(* The decoder, run on 4x4 rasters and on lists of up to                   *)
(* MaxTransformations distinct transformations of a pool: three with       *)
(* disjoint range blocks that leave pixels uncovered (two of them read     *)
(* what another writes), one whose range overlaps another's, and one whose *)
(* range leaves the raster.                                                *)
(***************************************************************************)
DecoderSide == 4

DecoderPool ==
    { Transformation(Block(2, Coords(0, 0)), Block(4, Coords(0, 0)), "By90", 10, << 1, 2 >>),
      Transformation(Block(2, Coords(2, 0)), Block(4, Coords(0, 0)), "By0", 200, << -3, 4 >>),
      Transformation(Block(1, Coords(0, 2)), Block(2, Coords(2, 0)), "By180", -20, << 1, 1 >>),
      Transformation(Block(2, Coords(1, 1)), Block(4, Coords(0, 0)), "By270", 0, << 1, 1 >>),
      Transformation(Block(2, Coords(3, 3)), Block(4, Coords(0, 0)), "By0", 0, << 1, 2 >>) }

DecoderInputs ==
    {Compressed(Size_squared(DecoderSide), ts) :
        ts \in {l \in UNION {[1 .. n -> DecoderPool] : n \in 0 .. MaxTransformations} :
                   \A i, j \in DOMAIN l : i # j => l[i] # l[j]}}

\* OwnedImage::random(size): the rasters the seeded generator may give.
Seeds ==
    {OwnedImage(Size_squared(DecoderSide),
                [k \in 1 .. DecoderSide * DecoderSide |-> (37 * k + 11) % 256]),
     OwnedImage(Size_squared(DecoderSide),
                [k \in 1 .. DecoderSide * DecoderSide |-> (91 * k * k + 200) % 256])}

\* A faulty variant of begin_iteration: the snapshot is taken in the first
\* iteration only.
begin_iteration_without_snapshot ==
    /\ pc = "loop"
    /\ pass < options.iterations
    /\ previous_pass' = IF pass = 0 THEN raster ELSE previous_pass
    /\ iteration_start' = raster
    /\ next' = 1
    /\ pc' = "apply"
    /\ UNCHANGED << decoding, options, raster, image_per_iteration, pass, seed >>
    /\ UNCHANGED << tilVars, encVars, codVars, viewVars, idxVars >>

\* let previous_pass = Arc::new(image.clone())
begin_iteration ==
    /\ pc = "loop"
    /\ pass < options.iterations
    /\ previous_pass' = raster
    /\ iteration_start' = raster
    /\ next' = 1
    /\ pc' = "apply"
    /\ UNCHANGED << decoding, options, raster, image_per_iteration, pass, seed >>
    /\ UNCHANGED << tilVars, encVars, codVars, viewVars, idxVars >>

\* transformation.apply_to(previous_pass.clone(), &mut image)
apply ==
    /\ pc = "apply"
    /\ next <= Len(decoding.transformations)
    /\ \E r \in {apply_to(decoding.transformations[next], previous_pass, raster)} :
          IF r.tag = "Panic"
          THEN pc' = "panicked" /\ UNCHANGED << raster, next >>
          ELSE raster' = r.value /\ next' = next + 1 /\ UNCHANGED pc
    /\ UNCHANGED << decoding, options, previous_pass, image_per_iteration, pass, seed,
                    iteration_start >>
    /\ UNCHANGED << tilVars, encVars, codVars, viewVars, idxVars >>

\* A faulty variant of end_iteration: the raster kept is the one the
\* iteration began with.
end_iteration_keeps_start ==
    /\ pc = "apply"
    /\ next > Len(decoding.transformations)
    /\ image_per_iteration' =
          IF image_per_iteration.tag = "None" THEN None
          ELSE Some(Append(image_per_iteration.value, iteration_start))
    /\ pass' = pass + 1
    /\ pc' = "loop"
    /\ UNCHANGED << decoding, options, raster, previous_pass, next, seed, iteration_start >>
    /\ UNCHANGED << tilVars, encVars, codVars, viewVars, idxVars >>

\* The end of the loop body: it.push(image.clone()) if the iterations are kept.
end_iteration ==
    /\ pc = "apply"
    /\ next > Len(decoding.transformations)
    /\ image_per_iteration' =
          IF image_per_iteration.tag = "None" THEN None
          ELSE Some(Append(image_per_iteration.value, raster))
    /\ pass' = pass + 1
    /\ pc' = "loop"
    /\ UNCHANGED << decoding, options, raster, previous_pass, next, seed, iteration_start >>
    /\ UNCHANGED << tilVars, encVars, codVars, viewVars, idxVars >>

\* Decompressed { image, iterations: image_per_iteration }
decompress_return ==
    /\ pc = "loop"
    /\ pass = options.iterations
    /\ pc' = "returned"
    /\ UNCHANGED << decoding, options, raster, previous_pass, image_per_iteration, pass,
                    next, seed, iteration_start >>
    /\ UNCHANGED << tilVars, encVars, codVars, viewVars, idxVars >>

DecNext == begin_iteration \/ apply \/ end_iteration \/ decompress_return

(***************************************************************************)
(* metrics.rs: mse and psnr.  An f64 quotient of two integers is the       *)
(* rational in lowest terms, << 0, 0 >> standing for the NaN of 0.0 / 0.0. *)
(* psnr's value is kept as the two numbers its logarithms are taken of and *)
(* the kind of f64 that comes out: "+inf", "-inf", "NaN" or "finite".      *)
(***************************************************************************)
\* A faulty variant of sizes_differ: only the areas are compared.
areas_differ(first, second) == area(first) # area(second)

\* first.get_size() != second.get_size(), the derived PartialEq of Size
sizes_differ(first, second) ==
    first.width # second.width \/ first.height # second.height

ImageSizeMismatch(first, second) ==
    Err([kind |-> "ImageSizeMismatch", first |-> first, second |-> second])

\* (px_a as i64 - px_b as i64).pow(2), over the zipped pixels
squared_differences(first, second) ==
    [k \in DOMAIN pixels(first) \cap DOMAIN pixels(second) |->
        (pixels(first)[k] - pixels(second)[k]) * (pixels(first)[k] - pixels(second)[k])]

mse(first, second) ==
    IF sizes_differ(get_size(first), get_size(second))
    THEN ImageSizeMismatch(get_size(first), get_size(second))
    ELSE IF area(get_size(first)) = 0 THEN Ok(<< 0, 0 >>)
    ELSE Ok(Rat[SumSeq(squared_differences(first, second)), area(get_size(first))])

\* first.pixels().max().unwrap_or(0)
max_pixel(v) ==
    IF pixels(v) = <<>> THEN 0
    ELSE CHOOSE p \in Range(pixels(v)) : \A other \in Range(pixels(v)) : other <= p

\* f64::log10 of a quotient that is not negative: NaN of NaN, -inf of 0.
log10_kind(a) ==
    IF a[2] = 0 THEN "NaN" ELSE IF a[1] = 0 THEN "-inf" ELSE "finite"

\* 20f64 * max.log10() - 10f64 * mse.log10()
psnr_kind(log_max, log_mse) ==
    IF log_max = "NaN" \/ log_mse = "NaN" THEN "NaN"
    ELSE IF log_max = "-inf" THEN (IF log_mse = "-inf" THEN "NaN" ELSE "-inf")
    ELSE IF log_mse = "-inf" THEN "+inf" ELSE "finite"

psnr(first, second) ==
    IF mse(first, second).tag = "Err" THEN mse(first, second)
    ELSE Ok([max |-> Max(max_pixel(first), max_pixel(second)),
             mse |-> mse(first, second).value,
             kind |-> psnr_kind(log10_kind(RatInt[Max(max_pixel(first), max_pixel(second))]),
                                log10_kind(mse(first, second).value))])

(***************************************************************************)
(* The image views, driven alone: views are put on an image, pixels are    *)
(* read from the result, and it is compared with another image.            *)
(***************************************************************************)
MaxViewSide == 3

MaxViewDepth == 4

ViewSources ==
    {FakeImage(Size_new(w, h)) : w, h \in 1 .. MaxViewSide}
    \cup {FakeImage(Size_squared(4)),
          OwnedImage(Size_squared(2), << 255, 255, 255, 254 >>),
          OwnedImage(Size_new(2, 3), << 7, 200, 31, 90, 255, 0 >>)}

\* The images the view is compared with.
MetricImages ==
    {FakeImage(Size_new(1, 1)), FakeImage(Size_new(2, 2)), FakeImage(Size_new(3, 2)),
     FakeImage(Size_new(2, 3)), FakeImage(Size_new(1, 4)),
     OwnedImage(Size_squared(2), << 9, 250, 0, 77 >>),
     OwnedImage(Size_new(2, 3), << 7, 3, 0, 255, 254, 1 >>)}

RECURSIVE depth(_)
depth(v) == IF v.kind \in {"down", "rot"} THEN 1 + depth(v.image) ELSE 0

\* image.rot(rotation)
Rot(rotation) ==
    /\ sample = None
    /\ measured = None
    /\ depth(view) < MaxViewDepth
    /\ fitted = None
    /\ view' = rot(view, rotation)
    /\ UNCHANGED << sample, measured, fitted >>
    /\ UNCHANGED << tilVars, encVars, codVars, decVars, idxVars >>

\* Square::new(image).unwrap().downscale_2x2()
Downscale ==
    /\ sample = None
    /\ measured = None
    /\ depth(view) < MaxViewDepth
    /\ is_squared(get_size(view))
    /\ fitted = None
    /\ view' = downscale_2x2(view)
    /\ UNCHANGED << sample, measured, fitted >>
    /\ UNCHANGED << tilVars, encVars, codVars, decVars, idxVars >>

\* image.pixel(x, y)
Pixel(x, y) ==
    /\ sample = None
    /\ measured = None
    /\ fitted = None
    /\ x <= get_width(view)
    /\ y <= get_height(view)
    /\ sample' = Some([x |-> x, y |-> y,
                       value |-> IF pixel_in_bounds(view, x, y)
                                 THEN Ok(pixel(view, x, y)) ELSE Panic])
    /\ UNCHANGED << view, measured, fitted >>
    /\ UNCHANGED << tilVars, encVars, codVars, decVars, idxVars >>

\* mse(&image, &other) and psnr(&image, &other)
Measure(other) ==
    /\ sample = None
    /\ measured = None
    /\ fitted = None
    /\ measured' = Some([other |-> other, mse |-> mse(view, other),
                         psnr |-> psnr(view, other)])
    /\ UNCHANGED << view, sample, fitted >>
    /\ UNCHANGED << tilVars, encVars, codVars, decVars, idxVars >>

\* The domains and ranges given to Mapping::compute: flat, rising and falling
\* blocks of 1, 2 and 4 pixels, a rotated and a downscaled view among them.
FitDomains ==
    {FakeImage(Size_squared(1)),
     FakeImage(Size_squared(2)),
     rot(FakeImage(Size_squared(2)), "By90"),
     downscale_2x2(FakeImage(Size_squared(4))),
     OwnedImage(Size_squared(2), << 7, 7, 7, 7 >>),
     OwnedImage(Size_squared(2), << 0, 4, 8, 12 >>),
     OwnedImage(Size_new(2, 1), << 100, 102 >>),
     OwnedImage(Size_new(2, 1), << 10, 14 >>),
     OwnedImage(Size_new(2, 1), << 0, 2 >>),
     OwnedImage(Size_new(2, 1), << 0, 255 >>)}

FitRanges ==
    {FakeImage(Size_squared(1)),
     OwnedImage(Size_squared(1), << 9 >>),
     FakeImage(Size_squared(2)),
     OwnedImage(Size_squared(2), << 1, 2, 4, 7 >>),
     OwnedImage(Size_squared(2), << 3, 2, 1, 0 >>),
     OwnedImage(Size_squared(2), << 5, 5, 5, 6 >>),
     OwnedImage(Size_squared(2), << 0, 12, 0, 12 >>),
     OwnedImage(Size_new(2, 1), << 255, 254 >>),
     OwnedImage(Size_new(2, 1), << 0, 4 >>),
     OwnedImage(Size_new(2, 1), << 3, 4 >>),
     OwnedImage(Size_new(2, 1), << 255, 0 >>)}

\* Mapping::compute(&image, &range): the two assert_eq! on the sizes, then
\* the solver.
Compute(range) ==
    /\ sample = None
    /\ measured = None
    /\ fitted = None
    /\ fitted' = Some([range |-> range,
                       mapping |-> IF sizes_differ(get_size(view), get_size(range))
                                   THEN Panic
                                   ELSE Ok(Mapping_compute(view, range))])
    /\ UNCHANGED << view, sample, measured >>
    /\ UNCHANGED << tilVars, encVars, codVars, decVars, idxVars >>

ViewNext ==
    \/ \E rotation \in Rotations : Rot(rotation)
    \/ Downscale
    \/ \E x, y \in 0 .. MaxViewSide + 1 : Pixel(x, y)
    \/ \E other \in MetricImages : Measure(other)

FitNext == \E range \in FitRanges : Compute(range)

(***************************************************************************)
(* The specifications: each part of the program is run alone, the others   *)
(* at rest.                                                                *)
(***************************************************************************)
(***************************************************************************)
(* model/block.rs, driven alone: the indices of a block are asked for, for *)
(* images of several widths and heights.                                   *)
(***************************************************************************)
MaxBlockSide == 3

MaxImageSide == 4

IndexedBlocks ==
    {Block(n, Coords(x, y)) : n \in 0 .. MaxBlockSide, x, y \in 0 .. MaxImageSide - 1}

\* block.indices(image_width, image_height).collect()
Indices(image_width, image_height) ==
    /\ yielded' = Some([image_width |-> image_width, image_height |-> image_height,
                         items |-> Block_indices(self_block, image_width, image_height)])
    /\ UNCHANGED self_block
    /\ UNCHANGED << tilVars, encVars, codVars, decVars, viewVars >>

IdxNext == \E image_width, image_height \in 1 .. MaxImageSide : Indices(image_width, image_height)

IdxIdle ==
    /\ self_block = Block(0, Coords(0, 0))
    /\ yielded = None

IdxInit ==
    /\ self_block \in IndexedBlocks
    /\ yielded = None

ViewIdle ==
    /\ view = FakeImage(Size_squared(1))
    /\ sample = None
    /\ measured = None
    /\ fitted = None

FitInit ==
    /\ view \in FitDomains
    /\ sample = None
    /\ measured = None
    /\ fitted = None

ViewInit ==
    /\ view \in ViewSources
    /\ sample = None
    /\ measured = None
    /\ fitted = None

TilIdle ==
    /\ source = FakeImage(Size_squared(1))
    /\ tiling = None

TilInit ==
    /\ source \in TileSources
    /\ tiling = None

EncIdle ==
    /\ image = pattern_image("flat", 1)
    /\ error_threshold = DefaultErrorThreshold
    /\ progress_fn = FALSE
    /\ area_covered = 0
    /\ reported = None
    /\ tasks = << >>
    /\ queue = <<>>
    /\ workers = [w \in 1 .. NumWorkers |-> Idle]
    /\ picks = 0
    /\ returned = NewCompressor

\* Compressor::new(image)
EncInit ==
    /\ image \in Images
    /\ error_threshold = DefaultErrorThreshold
    /\ progress_fn = FALSE
    /\ area_covered = 0
    /\ reported = None
    /\ tasks = << >>
    /\ queue = <<>>
    /\ workers = [w \in 1 .. NumWorkers |-> Idle]
    /\ picks = 0
    /\ returned = NewCompressor

CodIdle ==
    /\ compressed = Compressed(Size_squared(1), <<>>)
    /\ serialized = None
    /\ wire = None
    /\ deserialized = None

CodInit ==
    /\ compressed \in CodecInputs
    /\ serialized = None
    /\ wire = None
    /\ deserialized = None

DecIdle ==
    /\ decoding = Compressed(Size_squared(1), <<>>)
    /\ options = [iterations |-> 0, keep_each_iteration |-> FALSE]
    /\ raster = OwnedImage(Size_squared(1), << 0 >>)
    /\ previous_pass = None
    /\ image_per_iteration = None
    /\ pass = 0
    /\ next = 1
    /\ pc = "loop"
    /\ seed = OwnedImage(Size_squared(1), << 0 >>)
    /\ iteration_start = None

\* decompress(compressed, options), up to the loop
DecInit ==
    /\ decoding \in DecoderInputs
    /\ options \in [iterations : 0 .. MaxIterations, keep_each_iteration : BOOLEAN]
    /\ seed \in Seeds
    /\ raster = seed
    /\ previous_pass = None
    /\ image_per_iteration = IF options.keep_each_iteration THEN Some(<<>>) ELSE None
    /\ pass = 0
    /\ next = 1
    /\ pc = "loop"
    /\ iteration_start = None

EncNext ==
    \/ \E t \in Thresholds : with_error_threshold(t)
    \/ with_progress_reporter
    \/ compress
    \/ \E w \in 1 .. NumWorkers : Search(w)
    \/ \E w \in 1 .. NumWorkers : report_block_mapped(w)
    \/ \E w \in 1 .. NumWorkers : report(w)
    \/ skip
    \/ compress_return

InitTiling == TilInit /\ EncIdle /\ CodIdle /\ DecIdle /\ ViewIdle /\ IdxIdle

InitEncoder == EncInit /\ TilIdle /\ CodIdle /\ DecIdle /\ ViewIdle /\ IdxIdle

InitCodec == CodInit /\ TilIdle /\ EncIdle /\ DecIdle /\ ViewIdle /\ IdxIdle

InitDecoder == DecInit /\ TilIdle /\ EncIdle /\ CodIdle /\ ViewIdle /\ IdxIdle

InitViews == ViewInit /\ TilIdle /\ EncIdle /\ CodIdle /\ DecIdle /\ IdxIdle

InitFit == FitInit /\ TilIdle /\ EncIdle /\ CodIdle /\ DecIdle /\ IdxIdle

InitIndices == IdxInit /\ TilIdle /\ EncIdle /\ CodIdle /\ DecIdle /\ ViewIdle

SpecTiling == InitTiling /\ [][TilNext]_vars

SpecEncoder == InitEncoder /\ [][EncNext]_vars

\* The worker w is the one to take the next call: the guard of Search(w).
worker_free(w) ==
    /\ returned = NotReturned
    /\ workers[w] = Idle
    /\ \A v \in 1 .. w - 1 : workers[v] # Idle
    /\ queue # <<>>

\* What Search(w) does to the queue: the call at its head is taken, and the
\* calls it forks, if any, are put in its place.
take(w) ==
    /\ worker_free(w)
    /\ \E n \in 0 .. MaxSide * MaxSide :
          queue' = [k \in 1 .. n |-> Head(queue) \o << k >>] \o Tail(queue)

\* Search(w) can be taken: its guard holds and its search has an outcome.
search_enabled(w) ==
    /\ worker_free(w)
    /\ \E domain_blocks \in {squared_blocks(image, 2 * tasks[Head(queue)].rb.size)} :
          \/ domain_blocks.tag = "Err"
          \/ \E outcomes \in {find_outcomes(domain_blocks.value, tasks[Head(queue)].rb,
                                             error_threshold)} :
             \E first \in {first_of(find_exact_winners(outcomes))} :
                \/ \E k \in find_winners(outcomes) : k = first \/ may_pick_other
                \/ find_can_fail(outcomes) /\ (first = 0 \/ may_pick_other)

\* The encoder under fair scheduling: a worker thread that can take a call
\* or go on with the one it runs eventually does (the pool runs every job
\* and the progress callback returns), and a pending drop or return of the
\* collect eventually happens.  The fairness of Search(w) is stated on take(w),
\* which is enabled when Search(w) is and is what every step of it does to
\* the queue.
SpecEncoderFair ==
    /\ InitEncoder
    /\ [][EncNext]_vars
    /\ \A w \in 1 .. NumWorkers :
          /\ WF_queue(take(w))
          /\ WF_vars(report_block_mapped(w))
          /\ WF_vars(report(w))
    /\ WF_vars(skip)
    /\ WF_vars(compress_return)

SpecCodec == InitCodec /\ [][CodNext]_vars

SpecDecoder == InitDecoder /\ [][DecNext]_vars

SpecViews == InitViews /\ [][ViewNext]_vars

SpecFit == InitFit /\ [][FitNext]_vars

SpecIndices == InitIndices /\ [][IdxNext]_vars

(***************************************************************************)
(* Properties of the encoder (SpecEncoder).                                *)
(***************************************************************************)
contractive(t) == Abs(t.saturation[1]) <= t.saturation[2]

fits(block, side) ==
    /\ block.origin.x + block.block_size <= side
    /\ block.origin.y + block.block_size <= side

in_block(block, x, y) ==
    /\ block.origin.x <= x /\ x < block.origin.x + block.block_size
    /\ block.origin.y <= y /\ y < block.origin.y + block.block_size

disjoint(a, b) ==
    \/ a.origin.x + a.block_size <= b.origin.x
    \/ b.origin.x + b.block_size <= a.origin.x
    \/ a.origin.y + a.block_size <= b.origin.y
    \/ b.origin.y + b.block_size <= a.origin.y

\* What the encoder's output looks like: a square image, every domain block
\* twice its range block, every block inside the image, and no two range
\* blocks sharing a pixel.
encoder_shaped(c) ==
    /\ is_squared(c.size)
    /\ \A i \in DOMAIN c.transformations :
          /\ c.transformations[i].range.block_size >= 1
          /\ serializable(c.transformations[i])
          /\ fits(c.transformations[i].range, c.size.width)
          /\ fits(c.transformations[i].domain, c.size.width)
    /\ \A i, j \in DOMAIN c.transformations :
          i # j => disjoint(c.transformations[i].range, c.transformations[j].range)

\* Lemma: what compress returns is encoder-shaped.
EncoderOutputShaped == returned.tag = "Ok" => encoder_shaped(returned.value)

\* C1: every transformation a call of find_transformations_recursive returns,
\* and every transformation of the Compressed that compress returns, has
\* |saturation| <= 1.
C1_EmittedSaturationAtMostOne ==
    /\ \A p \in DOMAIN tasks :
          tasks[p].result.tag = "Ok" =>
             \A i \in DOMAIN tasks[p].result.value : contractive(tasks[p].result.value[i])
    /\ returned.tag = "Ok" =>
          \A i \in DOMAIN returned.value.transformations :
             contractive(returned.value.transformations[i])

\* compress returned transformations though some search had candidates that
\* Mapping::compute rejected.
C1_Witness ==
    /\ returned.tag = "Ok"
    /\ returned.value.transformations # <<>>
    /\ \E p \in DOMAIN tasks : tasks[p].rejected > 0

\* C2: every transformation of the Compressed that compress returns on an
\* N x N image has a domain block twice the size of its range block, and both
\* blocks lie inside the image.
C2_EmittedBlocksDoubleAndFit ==
    returned.tag = "Ok" =>
       /\ returned.value.size = Size_squared(get_height(image))
       /\ \A i \in DOMAIN returned.value.transformations :
             /\ returned.value.transformations[i].domain.block_size
                   = 2 * returned.value.transformations[i].range.block_size
             /\ fits(returned.value.transformations[i].range, get_height(image))
             /\ fits(returned.value.transformations[i].domain, get_height(image))

\* compress returned transformations of two range-block sizes, one of them
\* away from the image's origin.
C2_Witness ==
    /\ returned.tag = "Ok"
    /\ \E i, j \in DOMAIN returned.value.transformations :
          /\ returned.value.transformations[i].range.block_size
                # returned.value.transformations[j].range.block_size
          /\ returned.value.transformations[i].range.origin # Coords(0, 0)

\* A tiling request of the run failed with InvalidSize.
tiling_failed ==
    \/ squared_blocks(image, get_height(image)).tag = "Err"
    \/ squared_blocks(image, get_height(image) \div 2).tag = "Err"
    \/ \E p \in DOMAIN tasks : tasks[p].error.tag = "Err"

\* C7: once compress has returned, if any tiling request of the run (an
\* initial partition, a search's domain tiling, a subdivision) failed with
\* InvalidSize, what compress returned is that kind of error and no Compressed.
C7_TilingFailureAbortsCompress ==
    (returned.tag \notin {"New", "Running"} /\ tiling_failed) =>
       /\ returned.tag = "Err"
       /\ returned.error.kind = "SquareSizeDoesNotDivideImageSize"

\* compress returned the error though an initial range block taken before
\* the failing one had been matched.
C7_Witness ==
    /\ returned.tag = "Err"
    /\ \E p, q \in top_tasks :
          /\ p[1] < q[1]
          /\ tasks[p].result.tag = "Ok"
          /\ tasks[p].result.value # <<>>
          /\ tasks[q].error.tag = "Err"

\* compress has finished: it returned a Compressed or an error.
compress_finished == returned.tag \in {"Ok", "Err"}

\* The calls that forked no further calls: the leaf blocks of the quadtree.
leaves == {p \in DOMAIN tasks : tasks[p].children = 0}

\* The call returned the transformation of a match.
matched(p) == tasks[p].result.tag = "Ok" /\ tasks[p].result.value # <<>>

\* Searches were run and every leaf block found a match.
every_leaf_matched == DOMAIN tasks # {} /\ \A p \in leaves : matched(p)

\* A step of a worker that accepts its range block: the fetch_add.
accepts(w) ==
    /\ workers[w] # Idle
    /\ tasks[workers[w]].pc = "report"
    /\ tasks'[workers[w]].pc = "callback"

\* C11, as claimed: when compress has finished, area_covered is the total
\* area exactly when every leaf block found a match.
C11_AreaIsTotalIffEveryLeafMatched ==
    compress_finished => (area_covered = image_size_squared <=> every_leaf_matched)

\* C11, amended: area_covered never decreases; it changes only in the step
\* that accepts a range block of side R for a compressor with a progress
\* reporter, and then by R * R; and when such a compressor's compress has
\* finished, area_covered is the total area exactly when every leaf block
\* found a match.  Without a progress reporter area_covered stays 0.
C11_AreaWithReporter ==
    /\ [](progress_fn /\ compress_finished
             => (area_covered = image_size_squared <=> every_leaf_matched))
    /\ [](~progress_fn => area_covered = 0)
    /\ [][/\ area_covered' >= area_covered
          /\ \A w \in 1 .. NumWorkers :
                accepts(w) => area_covered' = area_covered
                                 + get_height(tasks[workers[w]].rb)
                                   * get_height(tasks[workers[w]].rb)
          /\ area_covered' # area_covered => \E w \in 1 .. NumWorkers : accepts(w)]_vars

\* compress with a progress reporter finished with the whole area covered by
\* range blocks of a subdivision.
C11_Witness ==
    /\ returned.tag = "Ok"
    /\ progress_fn
    /\ area_covered = image_size_squared
    /\ \E p \in DOMAIN tasks : Len(p) >= 2 /\ matched(p)

\* The range blocks accepted so far: the calls whose fetch_add has been done.
accepted ==
    {p \in leaves : tasks[p].pc = "callback" \/ (tasks[p].pc = "done" /\ matched(p))}

block_area(p) == get_height(tasks[p].rb) * get_height(tasks[p].rb)

RECURSIVE summed_area(_)
summed_area(S) ==
    IF S = {} THEN 0
    ELSE LET p == CHOOSE q \in S : TRUE IN block_area(p) + summed_area(S \ {p})

\* C12: with a progress reporter, area_covered is at every moment the summed
\* area of the range blocks accepted so far, and each call of the reporter is
\* passed that value as it is at the call, which counts the block that
\* triggered the call, together with the total area N * N, which it does not
\* exceed.
C12_ReportedSnapshotConsistent ==
    /\ [](progress_fn => area_covered = summed_area(accepted))
    /\ [][reported' # reported =>
            /\ reported'.value.by \in accepted
            /\ reported'.value.area_covered = summed_area(accepted)
            /\ reported'.value.area_covered >= block_area(reported'.value.by)
            /\ reported'.value.total_area = get_height(image) * get_height(image)
            /\ reported'.value.area_covered <= reported'.value.total_area]_vars

\* The reporter was passed an area that counts a block another worker has
\* accepted and not yet reported.
C12_Witness ==
    /\ reported.tag = "Some"
    /\ reported.value.area_covered = area_covered
    /\ \E w \in 1 .. NumWorkers :
          /\ workers[w] # Idle
          /\ tasks[workers[w]].pc = "callback"
          /\ reported.value.area_covered
                >= block_area(reported.value.by) + block_area(workers[w])

(***************************************************************************)
(* Properties of the tiler (SpecTiling).                                   *)
(***************************************************************************)
\* Where the source sits in the root image.
source_origin == IF source.kind = "block" THEN source.origin ELSE Coords(0, 0)

divides(size, side) == \E k \in 0 .. side : k * size = side

\* C5: a request for blocks of a side S >= 1 that divides the side N of the
\* source returns (N/S)^2 blocks of side S over the root image; every pixel
\* position of the source lies in exactly one of them; and a block's pixel
\* (x, y) is the root image's pixel at origin + (x, y), which is the source's
\* pixel at that position.
C5_TilingPartitionsSource ==
    (/\ tiling.tag = "Some"
     /\ tiling.value.size >= 1
     /\ get_height(source) % Max(tiling.value.size, 1) = 0) =>
        /\ tiling.value.result.tag = "Ok"
        /\ Len(tiling.value.result.value)
              = (get_height(source) \div tiling.value.size)
                * (get_height(source) \div tiling.value.size)
        /\ \A k \in DOMAIN tiling.value.result.value :
              /\ tiling.value.result.value[k].kind = "block"
              /\ tiling.value.result.value[k].size = tiling.value.size
              /\ tiling.value.result.value[k].image = as_inner(source)
        /\ \A x, y \in 0 .. get_height(source) - 1 :
              Cardinality({k \in DOMAIN tiling.value.result.value :
                              in_block(Block(tiling.value.result.value[k].size,
                                             tiling.value.result.value[k].origin),
                                       source_origin.x + x, source_origin.y + y)}) = 1
        /\ \A k \in DOMAIN tiling.value.result.value :
           \A x, y \in 0 .. tiling.value.size - 1 :
              /\ pixel(tiling.value.result.value[k], x, y)
                    = pixel(as_inner(source),
                            tiling.value.result.value[k].origin.x + x,
                            tiling.value.result.value[k].origin.y + y)
              /\ pixel(tiling.value.result.value[k], x, y)
                    = pixel(source,
                            tiling.value.result.value[k].origin.x - source_origin.x + x,
                            tiling.value.result.value[k].origin.y - source_origin.y + y)

\* A sub-block away from the root's origin was tiled into several blocks.
C5_Witness ==
    /\ tiling.tag = "Some"
    /\ source.kind = "block"
    /\ source.origin.x > 0
    /\ source.origin.y > 0
    /\ tiling.value.result.tag = "Ok"
    /\ Len(tiling.value.result.value) > 1

\* C6, as claimed: a request returns the InvalidSize error exactly when the
\* requested side does not divide the side of the source.
C6_InvalidSizeExactlyWhenNotDividing ==
    tiling.tag = "Some" =>
       (tiling.value.result.tag = "Err"
           <=> ~divides(tiling.value.size, get_height(source)))

\* A request for blocks of side 0 ended in a panic.
C6_Witness ==
    /\ tiling.tag = "Some"
    /\ tiling.value.size = 0
    /\ tiling.value.result.tag = "Panic"

(***************************************************************************)
(* Properties of the codec (SpecCodec).                                    *)
(***************************************************************************)
count(seq, t) == Cardinality({i \in DOMAIN seq : seq[i] = t})

of_range_size(seq, size) == SelectSeq(seq, LAMBDA t : t.range.block_size = size)

range_sizes(seq) == {seq[i].range.block_size : i \in DOMAIN seq}

all_serializable(c) == \A i \in DOMAIN c.transformations : serializable(c.transformations[i])

\* deserialize was handed exactly the bytes serialize returned.
intact ==
    /\ serialized.tag = "Some"
    /\ serialized.value.tag = "Ok"
    /\ wire = Some(serialized.value.value)

round_trip == intact /\ deserialized.tag = "Some"

\* C3: serialize succeeds on a Compressed whose domain blocks are all twice
\* their range blocks, and deserialize of its bytes succeeds with the same
\* size and the same multiset of transformations.
C3_RoundTripKeepsMultiset ==
    /\ (serialized.tag = "Some" /\ all_serializable(compressed))
          => serialized.value.tag = "Ok"
    /\ (round_trip /\ all_serializable(compressed)) =>
          /\ deserialized.value.tag = "Ok"
          /\ deserialized.value.value.size = compressed.size
          /\ Len(deserialized.value.value.transformations) = Len(compressed.transformations)
          /\ \A t \in Range(compressed.transformations)
                      \cup Range(deserialized.value.value.transformations) :
                count(deserialized.value.value.transformations, t)
                   = count(compressed.transformations, t)

\* A list of MaxTransformations transformations of two range-block sizes,
\* one of them twice in it, went through the round trip.
C3_Witness ==
    /\ round_trip
    /\ all_serializable(compressed)
    /\ Len(compressed.transformations) = MaxTransformations
    /\ Cardinality(range_sizes(compressed.transformations)) = 2
    /\ \E i, j \in DOMAIN compressed.transformations :
          i # j /\ compressed.transformations[i] = compressed.transformations[j]

\* C4, as claimed: the i-th transformation of the round trip's result is the
\* i-th transformation that was serialized.
C4_RoundTripKeepsOrder ==
    (round_trip /\ deserialized.value.tag = "Ok") =>
       deserialized.value.value.transformations = compressed.transformations

\* C4, amended: the round trip's result lists the transformations group by
\* group, one group for each range-block size, and the transformations of one
\* range-block size in the order they were serialized in.
C4_RoundTripKeepsOrderWithinSize ==
    (round_trip /\ deserialized.value.tag = "Ok") =>
       /\ \A size \in range_sizes(compressed.transformations) :
             of_range_size(deserialized.value.value.transformations, size)
                = of_range_size(compressed.transformations, size)
       /\ \A i, j, k \in DOMAIN deserialized.value.value.transformations :
             (/\ i < j /\ j < k
              /\ deserialized.value.value.transformations[i].range.block_size
                    = deserialized.value.value.transformations[k].range.block_size)
                => deserialized.value.value.transformations[j].range.block_size
                      = deserialized.value.value.transformations[i].range.block_size

\* A list whose range-block sizes alternate came back in another order, the
\* two transformations of the same size still in their order.
C4_Witness ==
    /\ round_trip
    /\ deserialized.value.tag = "Ok"
    /\ Len(compressed.transformations) = 3
    /\ compressed.transformations[1].range.block_size
          = compressed.transformations[3].range.block_size
    /\ compressed.transformations[1].range.block_size
          # compressed.transformations[2].range.block_size
    /\ compressed.transformations[1] # compressed.transformations[3]
    /\ deserialized.value.value.transformations # compressed.transformations

InvalidBlockSize(r) == r.tag = "Err" /\ r.error.kind = "InvalidBlockSize"

\* Lemma: on a Compressed whose range-block sizes are all below 2^31,
\* serialize returns InvalidBlockSize when some domain block is not twice its
\* range block and bytes otherwise.
SerializeChecksBlockSizes ==
    (/\ serialized.tag = "Some"
     /\ \A i \in DOMAIN compressed.transformations :
           ~u32_mul2_overflows(compressed.transformations[i].range.block_size))
       => /\ InvalidBlockSize(serialized.value) <=> ~all_serializable(compressed)
          /\ serialized.value.tag = "Ok" <=> all_serializable(compressed)

\* C13: serialize fails with InvalidBlockSize exactly when some transformation
\* has a domain block that is not twice its range block, no bytes are
\* returned then, and it succeeds otherwise.
C13_InvalidBlockSizeIffNotDouble ==
    serialized.tag = "Some" =>
       /\ InvalidBlockSize(serialized.value) <=> ~all_serializable(compressed)
       /\ ~all_serializable(compressed) => serialized.value.tag # "Ok"
       /\ all_serializable(compressed) => serialized.value.tag = "Ok"

\* serialize was called on a Compressed with a range block of size 2^31 + 8
\* and a domain block of size 16, and panicked; or it returned bytes.
C13_Witness ==
    /\ serialized.tag = "Some"
    /\ serialized.value.tag \in {"Panic", "Ok"}
    /\ \E i \in DOMAIN compressed.transformations :
          /\ u32_mul2_overflows(compressed.transformations[i].range.block_size)
          /\ compressed.transformations[i].domain.block_size
                = u32_mul2(compressed.transformations[i].range.block_size)
    /\ \A i \in DOMAIN compressed.transformations :
          compressed.transformations[i].domain.block_size
             = u32_mul2(compressed.transformations[i].range.block_size)

InvalidRotation(r, b) ==
    r.tag = "Err" /\ r.error = [kind |-> "InvalidRotation", code |-> b]

\* deserialize was handed the serialized bytes with one rotation byte
\* replaced by a byte that is no rotation code.
tampered ==
    /\ serialized.tag = "Some"
    /\ serialized.value.tag = "Ok"
    /\ wire.tag = "Some"
    /\ \E pos \in rotation_positions(serialized.value.value, 9) :
          /\ Len(wire.value) = Len(serialized.value.value)
          /\ wire.value[pos] >= 4
          /\ wire.value = [serialized.value.value EXCEPT ![pos] = wire.value[pos]]

tampered_byte ==
    wire.value[first_of({pos \in DOMAIN wire.value :
                            wire.value[pos] # serialized.value.value[pos]})]

\* C14: the conversions between Rotation and u8 are inverse bijections
\* between the four rotations and 0..3, every byte from 4 to 255 converts to
\* InvalidRotation, and deserialize returns that InvalidRotation for the
\* stream of a Compressed (range-block sizes below 2^31) in which the
\* rotation byte of an entry was replaced by such a byte.
C14_RotationCodes ==
    /\ \A rotation \in Rotations :
          /\ Rotation_into_u8(rotation) \in 0 .. 3
          /\ Rotation_try_from(Rotation_into_u8(rotation)) = Ok(rotation)
    /\ \A value \in 0 .. 3 :
          /\ Rotation_try_from(value).tag = "Ok"
          /\ Rotation_try_from(value).value \in Rotations
          /\ Rotation_into_u8(Rotation_try_from(value).value) = value
    /\ \A value \in 4 .. 255 : InvalidRotation(Rotation_try_from(value), value)
    /\ (tampered /\ all_serializable(compressed) /\ deserialized.tag = "Some")
          => InvalidRotation(deserialized.value, tampered_byte)
    /\ (intact /\ all_serializable(compressed) /\ deserialized = None) =>
          \A pos \in rotation_positions(wire.value, 9) :
             \A value \in 4 .. 255 : \A overflow_checks \in BOOLEAN :
                InvalidRotation(deserialize_bytes([wire.value EXCEPT ![pos] = value],
                                                  overflow_checks), value)

\* The stream of MaxTransformations transformations of two range-block sizes
\* was deserialized with the rotation byte of its last entry replaced by 255.
C14_Witness ==
    /\ tampered
    /\ all_serializable(compressed)
    /\ deserialized.tag = "Some"
    /\ Len(compressed.transformations) = MaxTransformations
    /\ Cardinality(range_sizes(compressed.transformations)) = 2
    /\ tampered_byte = 255
    /\ wire.value[Len(wire.value) - 10] = 255

\* The lengths at which a well-formed stream can end between two groups,
\* from the group at pos.
RECURSIVE group_boundaries(_, _)
group_boundaries(bytes, pos) ==
    {pos - 1} \cup
    IF read_u32(bytes, pos).tag = "Err" THEN {}
    ELSE Only({ IF entry.tag = "Err" THEN {}
                ELSE group_boundaries(bytes, entry.value.pos) :
                   entry \in {Entry_deserialize(bytes, pos + 4)} })

\* deserialize was handed a proper prefix of the serialized bytes that holds
\* the header.
truncated ==
    /\ serialized.tag = "Some"
    /\ serialized.value.tag = "Ok"
    /\ wire.tag = "Some"
    /\ Len(wire.value) >= 8
    /\ Len(wire.value) < Len(serialized.value.value)
    /\ wire.value = SubSeq(serialized.value.value, 1, Len(wire.value))

\* How far the stream goes beyond the last group boundary it reaches.
beyond_boundary ==
    Only({ Len(wire.value) - b :
              b \in {b \in group_boundaries(serialized.value.value, 9) :
                        /\ b <= Len(wire.value)
                        /\ \A other \in group_boundaries(serialized.value.value, 9) :
                              other <= Len(wire.value) => other <= b} })

IoError(r) == r.tag = "Err" /\ r.error.kind = "IO"

\* Lemma: a stream that ends at a group boundary deserializes to a
\* Compressed, and one that ends in the entry_count field or in an entry of
\* a group to an IO error.
EndInsideEntriesIsIoError ==
    ((truncated \/ intact) /\ all_serializable(compressed) /\ deserialized.tag = "Some")
       => /\ beyond_boundary = 0 => deserialized.value.tag = "Ok"
          /\ beyond_boundary >= 4 => IoError(deserialized.value)

\* C15: deserialize returns an IO error for every stream that ends inside a
\* group, in its range_block_size field, its entry_count field or one of its
\* entries, and a Compressed only for a stream that ends at a group boundary.
C15_EndInsideGroupIsIoError ==
    ((truncated \/ intact) /\ all_serializable(compressed) /\ deserialized.tag = "Some")
       => /\ beyond_boundary # 0 => IoError(deserialized.value)
          /\ deserialized.value.tag = "Ok" => beyond_boundary = 0

\* A stream that ends two bytes into the range_block_size field of its second
\* group was deserialized to a Compressed with the first group's
\* transformations.
C15_Witness ==
    /\ truncated
    /\ all_serializable(compressed)
    /\ beyond_boundary = 2
    /\ Len(wire.value) > 8 + 2
    /\ deserialized.tag = "Some"
    /\ deserialized.value.tag = "Ok"
    /\ deserialized.value.value.transformations # <<>>

typed(r) ==
    \/ r.tag = "Ok"
    \/ r.tag = "Err" /\ r.error.kind \in {"IO", "InvalidRotation"}

\* Lemma: on a stream that holds the 8 bytes of the header and no
\* range_block_size of 2^31 or more, deserialize returns a Compressed or a
\* DeserializationError.
DeserializeTypedAfterHeader ==
    (/\ deserialized.tag = "Some"
     /\ Len(wire.value) >= 8
     /\ all_serializable(compressed))
       => typed(deserialized.value)

\* C16: whatever bytes deserialize is handed, it returns a Compressed or a
\* DeserializationError (IO or InvalidRotation), and never panics.
C16_DeserializeNeverPanics == deserialized.tag = "Some" => typed(deserialized.value)

\* deserialize was handed the first five bytes of a stream and panicked.
C16_Witness ==
    /\ wire.tag = "Some"
    /\ Len(wire.value) = 5
    /\ deserialized.tag = "Some"
    /\ deserialized.value.tag = "Panic"

\* deserialize was handed a stream whose header is whole and panicked.
OverflowPanicReached ==
    /\ wire.tag = "Some"
    /\ Len(wire.value) >= 8
    /\ deserialized.tag = "Some"
    /\ deserialized.value.tag = "Panic"

(***************************************************************************)
(* Properties of the image views and the metrics (SpecViews).              *)
(***************************************************************************)
coords_of(v) == {c \in [x : 0 .. get_width(v) - 1, y : 0 .. get_height(v) - 1] : TRUE}

\* The last pixel read was at a coordinate inside the view.
sampled_inside ==
    /\ sample.tag = "Some"
    /\ sample.value.x < get_width(view)
    /\ sample.value.y < get_height(view)

\* floor((a + b + c + d) / 4) of the four pixels of v under (x, y)
floor_of_mean(v, x, y) ==
    (pixel(v, 2 * x, 2 * y) + pixel(v, 2 * x + 1, 2 * y)
     + pixel(v, 2 * x, 2 * y + 1) + pixel(v, 2 * x + 1, 2 * y + 1)) \div 4

downscaled_even_square ==
    /\ view.kind = "down"
    /\ is_squared(get_size(view.image))
    /\ get_width(view.image) % 2 = 0

\* C17: the 2x2-downscaled view of a square image of side 2k has side k, and
\* its pixel at (x, y) is the floor of the mean of the four pixels of the
\* image at (2x, 2y), (2x+1, 2y), (2x, 2y+1), (2x+1, 2y+1), a number from 0 to
\* 255, however large their sum.
C17_DownscaledIsFloorOfMean ==
    downscaled_even_square =>
       /\ get_size(view) = Size_squared(get_width(view.image) \div 2)
       /\ \A c \in coords_of(view) :
             /\ pixel_in_bounds(view, c.x, c.y)
             /\ pixel(view, c.x, c.y) = floor_of_mean(view.image, c.x, c.y)
             /\ pixel(view, c.x, c.y) \in 0 .. 255
       /\ sampled_inside =>
             sample.value.value
                = Ok(floor_of_mean(view.image, sample.value.x, sample.value.y))

\* A pixel was read from the downscaled view of a 2 x 2 image whose pixels
\* add up to 1019.
C17_Witness ==
    /\ downscaled_even_square
    /\ view.image.kind = "owned"
    /\ SumSeq(pixels(view.image)) > 4 * 255 - 4
    /\ sampled_inside
    /\ sample.value.value = Ok(254)

\* The coordinate the claim gives for (x, y) of a rotated view of width w and
\* height h.
claimed_source_coords(rotation, x, y, w, h) ==
    CASE rotation = "By0"   -> [x |-> x, y |-> y]
      [] rotation = "By90"  -> [x |-> y, y |-> (w - 1) - x]
      [] rotation = "By180" -> [x |-> (w - 1) - x, y |-> (h - 1) - y]
      [] rotation = "By270" -> [x |-> (h - 1) - y, y |-> x]

\* C18: a rotated view has the size of its source under By0 and By180 and the
\* transposed size under By90 and By270; with W and H its own width and
\* height, its pixel at (x, y) is the source's pixel at (x, y), (y, W-1-x),
\* (W-1-x, H-1-y), (H-1-y, x) for By0, By90, By180, By270, and that
\* coordinate is inside the source for every (x, y) inside the view.
C18_RotatedMapping ==
    view.kind = "rot" =>
       /\ get_size(view) = IF view.rotation \in {"By0", "By180"}
                           THEN get_size(view.image)
                           ELSE Size_new(get_height(view.image), get_width(view.image))
       /\ \A c \in coords_of(view) :
             \E s \in {claimed_source_coords(view.rotation, c.x, c.y,
                                              get_width(view), get_height(view))} :
                /\ s \in coords_of(view.image)
                /\ pixel_in_bounds(view, c.x, c.y)
                /\ pixel(view, c.x, c.y) = pixel(view.image, s.x, s.y)
       /\ sampled_inside =>
             \E s \in {claimed_source_coords(view.rotation, sample.value.x, sample.value.y,
                                              get_width(view), get_height(view))} :
                sample.value.value = Ok(pixel(view.image, s.x, s.y))

\* The pixel at the far corner was read from the 3 x 2 image rotated by 90
\* degrees, a view 2 wide and 3 high.
C18_Witness ==
    /\ view = rot(FakeImage(Size_new(3, 2)), "By90")
    /\ get_size(view) = Size_new(2, 3)
    /\ sample = Some([x |-> 1, y |-> 2, value |-> Ok(2)])

\* The two views have the same size and the same pixel at every coordinate.
same_image(a, b) ==
    /\ get_size(a) = get_size(b)
    /\ \A c \in coords_of(a) :
          /\ pixel_in_bounds(a, c.x, c.y) <=> pixel_in_bounds(b, c.x, c.y)
          /\ pixel(a, c.x, c.y) = pixel(b, c.x, c.y)

\* The view is `turns` rotations by `rotation` on top of something.
RECURSIVE turned(_, _, _)
turned(v, rotation, turns) ==
    turns = 0 \/ (v.kind = "rot" /\ v.rotation = rotation /\ turned(v.image, rotation, turns - 1))

RECURSIVE beneath(_, _)
beneath(v, turns) == IF turns = 0 THEN v ELSE beneath(v.image, turns - 1)

\* C19: rot_0 of a view, rot_90 applied four times to a view, and rot_180
\* applied twice to a view have the size of the view and its pixel at every
\* coordinate.
C19_RotationGroupLaws ==
    /\ turned(view, "By0", 1) => same_image(view, beneath(view, 1))
    /\ turned(view, "By90", 4) => same_image(view, beneath(view, 4))
    /\ turned(view, "By180", 2) => same_image(view, beneath(view, 2))
    /\ (turned(view, "By90", 4) /\ sampled_inside) =>
          sample.value.value
             = Ok(pixel(beneath(view, 4), sample.value.x, sample.value.y))

\* A pixel off the diagonal was read from the 3 x 2 image after four
\* rotations by 90 degrees.
C19_Witness ==
    /\ turned(view, "By90", 4)
    /\ beneath(view, 4) = FakeImage(Size_new(3, 2))
    /\ sample = Some([x |-> 2, y |-> 1, value |-> Ok(5)])

SizeMismatch(r) == r.tag = "Err" /\ r.error.kind = "ImageSizeMismatch"

\* The sum of (a(x, y) - b(x, y))^2 over the coordinates of S.
RECURSIVE sum_of_squared_differences(_, _, _)
sum_of_squared_differences(S, a, b) ==
    IF S = {} THEN 0
    ELSE Only({ (pixel(a, c.x, c.y) - pixel(b, c.x, c.y))
                   * (pixel(a, c.x, c.y) - pixel(b, c.x, c.y))
                + sum_of_squared_differences(S \ {c}, a, b) :
                   c \in {CHOOSE c \in S : TRUE} })

\* C20: mse and psnr return the size mismatch error exactly when the two
\* images differ in width or in height, images of equal area and different
\* shape included; otherwise mse returns the sum of the squared differences
\* of their pixels divided by the number of pixels.
C20_MetricsSizeMismatch ==
    measured.tag = "Some" =>
       /\ SizeMismatch(measured.value.mse)
             <=> (\/ get_width(view) # get_width(measured.value.other)
                  \/ get_height(view) # get_height(measured.value.other))
       /\ SizeMismatch(measured.value.psnr) <=> SizeMismatch(measured.value.mse)
       /\ ~SizeMismatch(measured.value.mse) =>
             /\ measured.value.psnr.tag = "Ok"
             /\ measured.value.mse
                   = Ok(Rat[sum_of_squared_differences(coords_of(view), view,
                                                       measured.value.other),
                            get_width(view) * get_height(view)])

\* A view 3 wide and 2 high was compared with an image 2 wide and 3 high.
C20_Witness ==
    /\ measured.tag = "Some"
    /\ get_size(view) = Size_new(3, 2)
    /\ get_size(measured.value.other) = Size_new(2, 3)
    /\ SizeMismatch(measured.value.mse)
    /\ SizeMismatch(measured.value.psnr)

\* A rotated image 2 wide and 3 high was compared with another image of that
\* size, and their mse is not a whole number.
MseOfEqualSizesReached ==
    /\ measured.tag = "Some"
    /\ view.kind = "rot"
    /\ get_size(view) = Size_new(2, 3)
    /\ measured.value.mse.tag = "Ok"
    /\ measured.value.mse.value[2] > 1

\* The view was compared with an image of its size and their mse is 0.
mse_is_zero ==
    /\ measured.tag = "Some"
    /\ measured.value.mse = Ok(<< 0, 1 >>)

\* Lemma: the mse of an image with itself is 0, and the psnr of two images
\* whose mse is 0 is +infinity when one of them has a pixel that is not 0.
PsnrInfiniteWithPositivePeak ==
    /\ (measured.tag = "Some" /\ measured.value.other = view) => mse_is_zero
    /\ (mse_is_zero /\ measured.value.psnr.value.max > 0)
          => measured.value.psnr.value.kind = "+inf"

\* C21: the mse of an image with itself is 0 and its psnr with itself is
\* +infinity, and so is the psnr of every two images of one size whose mse is
\* 0, whatever their pixels.
C21_PsnrInfiniteWhenMseZero ==
    /\ (measured.tag = "Some" /\ measured.value.other = view) => mse_is_zero
    /\ mse_is_zero =>
          /\ measured.value.psnr.tag = "Ok"
          /\ measured.value.psnr.value.kind = "+inf"

\* The 1 x 1 image whose one pixel is 0 was compared with itself: the mse is
\* 0 and the psnr is NaN.
C21_Witness ==
    /\ view = FakeImage(Size_new(1, 1))
    /\ measured.tag = "Some"
    /\ measured.value.other = view
    /\ mse_is_zero
    /\ measured.value.psnr.value.kind = "NaN"

\* An image with a pixel that is not 0 was compared with itself.
PsnrInfiniteReached ==
    /\ measured.tag = "Some"
    /\ measured.value.other = view
    /\ measured.value.psnr.value.max > 0
    /\ measured.value.psnr.value.kind = "+inf"

(***************************************************************************)
(* Properties of the mapping solver (SpecFit).                             *)
(***************************************************************************)
computed == fitted.tag = "Some" /\ fitted.value.mapping.tag = "Ok"

fit_n == Len(pixels(view))

\* The sums over the pixels d of the domain and r of the range.
fit_sum_d == SumSeq(pixels(view))

fit_sum_r == SumSeq(pixels(fitted.value.range))

fit_sum_dd == SumSeq([k \in DOMAIN pixels(view) |-> pixels(view)[k] * pixels(view)[k]])

fit_sum_dr ==
    SumSeq([k \in DOMAIN pixels(view) |-> pixels(view)[k] * pixels(fitted.value.range)[k]])

\* (s, o) is a stationary point of the sum of (s*d + o - r)^2, which is
\* convex in (s, o): the sum has its least value there.
minimizes(s, o) ==
    /\ RatAdd[RatMul[s, RatInt[fit_sum_dd]], RatMul[o, RatInt[fit_sum_d]]] = RatInt[fit_sum_dr]
    /\ RatAdd[RatMul[s, RatInt[fit_sum_d]], RatMul[o, RatInt[fit_n]]] = RatInt[fit_sum_r]

\* The minimizing s is unique when the domain is not flat, and is this
\* quotient then.
fit_den == fit_n * fit_sum_dd - fit_sum_d * fit_sum_d

fit_num == fit_n * fit_sum_dr - fit_sum_d * fit_sum_r

minimizing_s_above_one == fit_den # 0 /\ Abs(fit_num) > Abs(fit_den)

\* The o with the least sum for the given s.
minimizing_o(s) == Rat[fit_sum_r * s[2] - s[1] * fit_sum_d, fit_n * s[2]]

\* C22, as claimed: the saturation and brightness Mapping::compute returns
\* minimize the sum of (s*d + o - r)^2 over all real (s, o), and it returns
\* None exactly when the minimizing s is above 1 in absolute value.
C22_FitMinimizes ==
    computed =>
       /\ fitted.value.mapping.value = None <=> minimizing_s_above_one
       /\ fitted.value.mapping.value # None =>
             minimizes(fitted.value.mapping.value.value.saturation,
                       RatInt[fitted.value.mapping.value.value.brightness[1]])

\* C22, amended: Mapping::compute returns None exactly when the minimizing s
\* is above 1 in absolute value; otherwise its saturation is the minimizing
\* s (0 for a flat domain) and its brightness is the minimizing o for that
\* s, clamped to 0..255 and cut to a whole number (one less where the f64
\* computation lands just below a whole number), so that the pair minimizes
\* when that o is a whole number from 0 to 255.
C22_FitClampedAndTruncated ==
    computed =>
       /\ fitted.value.mapping.value = None <=> minimizing_s_above_one
       /\ fitted.value.mapping.value # None =>
             \E s \in {fitted.value.mapping.value.value.saturation} :
             \E o \in {minimizing_o(fitted.value.mapping.value.value.saturation)} :
             \E brightness \in {fitted.value.mapping.value.value.brightness} :
                /\ fit_den # 0 => RatMul[s, RatInt[fit_den]] = RatInt[fit_num]
                /\ fit_den = 0 => s = RatInt[0]
                /\ brightness[1] = RatTrunc[RatClamp[o, 0, PixelMax]]
                /\ \A i \in DOMAIN brightness :
                      brightness[i] \in {brightness[1], brightness[1] - 1}
                /\ (o[2] = 1 /\ o[1] \in 0 .. PixelMax) => minimizes(s, RatInt[brightness[1]])

\* Mapping::compute returned saturation -1/2 and brightness 255 for the
\* domain (100, 102) and the range (255, 254), where the least sum is at
\* o = 305.
C22_Witness ==
    /\ computed
    /\ fitted.value.mapping.value # None
    /\ fitted.value.mapping.value.value.saturation = << -1, 2 >>
    /\ fitted.value.mapping.value.value.brightness[1] = PixelMax
    /\ minimizing_o(fitted.value.mapping.value.value.saturation) = RatInt[305]

\* States the solver reaches: a rejected pair, a pair that minimizes, a
\* brightness clamped at 0, a brightness cut to a whole number, a panic.
FitRejectedReached == computed /\ fitted.value.mapping.value = None

FitMinimizingReached ==
    /\ computed
    /\ fitted.value.mapping.value # None
    /\ fit_den # 0
    /\ minimizes(fitted.value.mapping.value.value.saturation,
                 RatInt[fitted.value.mapping.value.value.brightness[1]])

FitClampedAtZeroReached ==
    /\ computed
    /\ fitted.value.mapping.value # None
    /\ minimizing_o(fitted.value.mapping.value.value.saturation)[1] < 0
    /\ fitted.value.mapping.value.value.brightness[1] = 0

FitTruncatedReached ==
    /\ computed
    /\ fitted.value.mapping.value # None
    /\ minimizing_o(fitted.value.mapping.value.value.saturation)[2] > 1

FitPanicReached == fitted.tag = "Some" /\ fitted.value.mapping.tag = "Panic"

(***************************************************************************)
(* Properties of the decoder (SpecDecoder).                                *)
(***************************************************************************)
\* The orders a list can be put in.
permutations(seq) ==
    {[i \in DOMAIN seq |-> seq[f[i]]] :
        f \in {g \in [DOMAIN seq -> DOMAIN seq] :
                  \A i, j \in DOMAIN seq : i # j => g[i] # g[j]}}

\* t reads a pixel that u writes.
reads_from(t, u) == ~disjoint(t.domain, u.range)

\* C8: while an iteration runs, the snapshot being read is the raster as it
\* was when the iteration began, and every pixel the transformation applied
\* last has written is the value computed from that raster.
C8_WritesReadIterationStart ==
    pc = "apply" =>
       /\ previous_pass = iteration_start
       /\ next > 1 =>
             \A k \in DOMAIN apply_zip(
                         Block_indices(decoding.transformations[next - 1].range,
                                       get_width(raster), get_height(raster)),
                         pixel_coords(apply_domain_block(decoding.transformations[next - 1],
                                                         iteration_start))) :
                pixel(raster,
                      decoding.transformations[next - 1].range.origin.x
                         + ((k - 1) % decoding.transformations[next - 1].range.block_size),
                      decoding.transformations[next - 1].range.origin.y
                         + ((k - 1) \div decoding.transformations[next - 1].range.block_size))
                   = new_pixel_value(
                        pixel(apply_domain_block(decoding.transformations[next - 1],
                                                 iteration_start),
                              (k - 1) % decoding.transformations[next - 1].range.block_size,
                              (k - 1) \div decoding.transformations[next - 1].range.block_size),
                        decoding.transformations[next - 1].saturation,
                        decoding.transformations[next - 1].brightness)

\* In a later iteration, a transformation was applied that reads pixels an
\* earlier transformation of the same iteration had already changed.
C8_Witness ==
    /\ pc = "apply"
    /\ pass >= 1
    /\ next > 2
    /\ raster # iteration_start
    /\ \E i \in 1 .. next - 2 :
          /\ reads_from(decoding.transformations[next - 1], decoding.transformations[i])
          /\ \E x, y \in 0 .. DecoderSide - 1 :
                /\ in_block(decoding.transformations[i].range, x, y)
                /\ in_block(decoding.transformations[next - 1].domain, x, y)
                /\ pixel(raster, x, y) # pixel(iteration_start, x, y)

\* C9: the raster decompress returns for an encoder-shaped Compressed is the
\* raster it returns, after the same number of iterations on the same seed,
\* for every permutation of the transformations.
C9_DecodeIgnoresOrder ==
    (pc = "returned" /\ encoder_shaped(decoding)) =>
       \A p \in permutations(decoding.transformations) :
          decompress_image(p, options.iterations, seed) = Ok(raster)

\* Two iterations of a list were decoded in which a transformation reads what
\* another writes.
C9_Witness ==
    /\ pc = "returned"
    /\ encoder_shaped(decoding)
    /\ options.iterations >= 2
    /\ raster # seed
    /\ \E i, j \in DOMAIN decoding.transformations :
          i < j /\ reads_from(decoding.transformations[j], decoding.transformations[i])

\* C10: a pixel in no transformation's range block holds its seeded value,
\* at every point of the decoding.
C10_UncoveredPixelsKeepSeed ==
    \A x \in 0 .. get_width(raster) - 1 :
    \A y \in 0 .. get_height(raster) - 1 :
       (\A i \in DOMAIN decoding.transformations :
           ~in_block(decoding.transformations[i].range, x, y))
          => pixel(raster, x, y) = pixel(seed, x, y)

\* decompress returned a raster that iterations have changed and that has
\* pixels in no range block.
C10_Witness ==
    /\ pc = "returned"
    /\ pass >= 1
    /\ raster # seed
    /\ decoding.transformations # <<>>
    /\ \E x, y \in 0 .. DecoderSide - 1 :
          \A i \in DOMAIN decoding.transformations :
             ~in_block(decoding.transformations[i].range, x, y)

\* C23: when decompress returns with keep_each_iteration set, the list it
\* returns holds exactly `iterations` rasters, the k-th being the raster at
\* the end of the k-th iteration and the last being the image returned; with
\* no iterations the list is empty and the image is the seed.  With
\* keep_each_iteration unset no list is returned.
C23_KeptIterations ==
    pc = "returned" =>
       IF options.keep_each_iteration
       THEN /\ image_per_iteration.tag = "Some"
            /\ Len(image_per_iteration.value) = options.iterations
            /\ \A k \in 1 .. options.iterations :
                  decompress_image(decoding.transformations, k, seed)
                     = Ok(image_per_iteration.value[k])
            /\ options.iterations > 0 =>
                  image_per_iteration.value[options.iterations] = raster
            /\ options.iterations = 0 =>
                  image_per_iteration.value = <<>> /\ raster = seed
       ELSE image_per_iteration = None

\* decompress returned two kept iterations that differ from each other and
\* from the seed.
C23_Witness ==
    /\ pc = "returned"
    /\ options.keep_each_iteration
    /\ options.iterations = 2
    /\ Len(image_per_iteration.value) = 2
    /\ image_per_iteration.value[1] # seed
    /\ image_per_iteration.value[1] # image_per_iteration.value[2]

\* decompress returned without iterations, with and without the list.
KeptNoIterationsReached ==
    pc = "returned" /\ options.iterations = 0 /\ options.keep_each_iteration

NoListReached ==
    pc = "returned" /\ options.iterations = 2 /\ ~options.keep_each_iteration

(***************************************************************************)
(* Properties of the quadtree search (SpecEncoder).                        *)
(***************************************************************************)
power_of_two(n) == \E k \in 0 .. n : Pow2[k] = n

\* The call has been run: a worker took it from the queue.
visited(p) == tasks[p].pc \notin {"queued", "skipped"}

\* The range block of the call, as a Block.
range_of(p) == Block(tasks[p].rb.size, tasks[p].rb.origin)

\* The call's own search gave a transformation.
emitted(p) == tasks[p].children = 0 /\ matched(p)

\* The candidates of the call's search: a domain tile of twice the side of
\* the range block, and a rotation.
candidates_of(p) ==
    {<< d, r >> :
        d \in {squared_blocks(image, 2 * tasks[p].rb.size).value[k] :
                  k \in DOMAIN squared_blocks(image, 2 * tasks[p].rb.size).value},
        r \in Rotations}

candidate_mapping(p, c) == Mapping_compute(rot(downscale_2x2(c[1]), c[2]), tasks[p].rb)

\* The candidate has a mapping whose error can compare below the threshold.
qualifies(p, c) ==
    \E m \in {candidate_mapping(p, c)} :
       m.tag = "Some" /\ TRUE \in error_verdicts(m.value, error_threshold)

\* The candidate has no mapping, or one whose error can compare not below
\* the threshold.
disqualifies(p, c) ==
    \E m \in {candidate_mapping(p, c)} :
       m.tag = "Some" => FALSE \in error_verdicts(m.value, error_threshold)

\* The transformation is the candidate's, for the range block of the call.
transformation_of(p, c, t) ==
    \E m \in {candidate_mapping(p, c)} :
       /\ m.tag = "Some"
       /\ t.range = range_of(p)
       /\ t.domain = Block(c[1].size, c[1].origin)
       /\ t.rotation = c[2]
       /\ t.saturation = m.value.saturation
       /\ \E i \in DOMAIN m.value.brightness : t.brightness = m.value.brightness[i]

\* The four quadrants of the range block of the call.
quadrants_of(p) ==
    {Block(tasks[p].rb.size \div 2,
           Coords(tasks[p].rb.origin.x + i * (tasks[p].rb.size \div 2),
                  tasks[p].rb.origin.y + j * (tasks[p].rb.size \div 2))) :
        i, j \in {0, 1}}

\* The places of the returned Compressed that hold a transformation for the
\* range block of the call.
emitted_for(p) ==
    {i \in DOMAIN returned.value.transformations :
        returned.value.transformations[i].range = range_of(p)}

LeafSkippedReached ==
    /\ returned.tag = "Ok"
    /\ \E p \in DOMAIN tasks : visited(p) /\ tasks[p].rb.size = 1 /\ ~emitted(p)

\* The 1 x 1 blocks whose search found nothing.
skipped_leaves == {p \in DOMAIN tasks : visited(p) /\ tasks[p].rb.size = 1 /\ ~emitted(p)}

\* The transformations of the returned Compressed whose range block holds
\* the pixel.
covering(x, y) ==
    {i \in DOMAIN returned.value.transformations :
        in_block(returned.value.transformations[i].range, x, y)}

\* C25: in the Compressed returned for an image of power-of-two side
\* N >= 2, every range block has a power-of-two side from 1 to N/2 and an
\* origin that is a multiple of its side, no two range blocks share a pixel,
\* and every pixel lies in exactly one range block or skipped 1 x 1 block.
C25_RangeBlocksPartitionImage ==
    (/\ returned.tag = "Ok"
     /\ power_of_two(get_height(image))
     /\ get_height(image) >= 2) =>
        /\ \A i \in DOMAIN returned.value.transformations :
              /\ power_of_two(returned.value.transformations[i].range.block_size)
              /\ returned.value.transformations[i].range.block_size >= 1
              /\ 2 * returned.value.transformations[i].range.block_size <= get_height(image)
              /\ returned.value.transformations[i].range.origin.x
                    % returned.value.transformations[i].range.block_size = 0
              /\ returned.value.transformations[i].range.origin.y
                    % returned.value.transformations[i].range.block_size = 0
        /\ \A i, j \in DOMAIN returned.value.transformations :
              i # j => disjoint(returned.value.transformations[i].range,
                                returned.value.transformations[j].range)
        /\ \A x, y \in 0 .. get_height(image) - 1 :
              Cardinality(covering(x, y))
                 + Cardinality({p \in skipped_leaves : in_block(range_of(p), x, y)}) = 1

\* compress returned range blocks of two sizes for a 4 x 4 image, in a run
\* where a search ended with another match than the first.
C25_Witness ==
    /\ returned.tag = "Ok"
    /\ get_height(image) = 4
    /\ picks > 0
    /\ \E i, j \in DOMAIN returned.value.transformations :
          /\ returned.value.transformations[i].range.block_size = 2
          /\ returned.value.transformations[j].range.block_size = 1
          /\ returned.value.transformations[j].range.origin # Coords(0, 0)

\* compress returned no transformation: every pixel is a skipped block.
AllSkippedReached ==
    /\ returned.tag = "Ok"
    /\ returned.value.transformations = <<>>
    /\ Cardinality(skipped_leaves) = get_height(image) * get_height(image)
    /\ get_height(image) = 4

\* C26: on an image of power-of-two side N >= 2 with a threshold above 0,
\* every call that has been run on a 1 x 1 range block returned a
\* transformation, every candidate of its search having saturation 0, the
\* range pixel as brightness and error 0; so no block is skipped, and every
\* pixel lies in exactly one range block of the Compressed returned.
C26_SinglePixelBlocksAccepted ==
    (/\ power_of_two(get_height(image))
     /\ get_height(image) >= 2
     /\ error_threshold > 0) =>
        /\ \A p \in DOMAIN tasks :
              (visited(p) /\ tasks[p].rb.size = 1) =>
                 /\ emitted(p)
                 /\ tasks[p].result.value[1].saturation = RatInt[0]
                 /\ tasks[p].result.value[1].brightness = pixel(tasks[p].rb, 0, 0)
                 /\ candidates_of(p) # {}
                 /\ \A c \in candidates_of(p) :
                       \E m \in {candidate_mapping(p, c)} :
                          /\ m.tag = "Some"
                          /\ m.value.saturation = RatInt[0]
                          /\ m.value.brightness = << pixel(tasks[p].rb, 0, 0) >>
                          /\ m.value.error_squared = RatInt[0]
                          /\ error_verdicts(m.value, error_threshold) = {TRUE}
        /\ skipped_leaves = {}
        /\ returned.tag = "Ok" =>
              \A x, y \in 0 .. get_height(image) - 1 : Cardinality(covering(x, y)) = 1

\* compress returned for a 4 x 4 image, with a threshold above 0, 1 x 1
\* range blocks whose pixel differs from the pixels of their domain blocks.
C26_Witness ==
    /\ returned.tag = "Ok"
    /\ get_height(image) = 4
    /\ error_threshold > 0
    /\ \E p \in DOMAIN tasks :
          /\ tasks[p].rb.size = 1
          /\ emitted(p)
          /\ pixel(tasks[p].rb, 0, 0) > 0
          /\ \E c \in candidates_of(p) :
                pixel(rot(downscale_2x2(c[1]), c[2]), 0, 0) # pixel(tasks[p].rb, 0, 0)

\* Some (domain tile of twice the side, rotation) has a mapping for the range
\* block whose error is below the threshold.
some_candidate_qualifies(img, threshold, rb) ==
    \E tiles \in {squared_blocks(img, 2 * rb.size)} :
       /\ tiles.tag = "Ok"
       /\ \E k \in DOMAIN tiles.value, r \in Rotations :
             \E m \in {Mapping_compute(rot(downscale_2x2(tiles.value[k]), r), rb)} :
                m.tag = "Some" /\ error_below(m.value, threshold)

\* The range blocks the image and the threshold determine below a block: the
\* block itself if a candidate qualifies, and otherwise what they determine
\* below its quadrants.
RECURSIVE determined_ranges(_, _, _)
determined_ranges(img, threshold, rb) ==
    IF some_candidate_qualifies(img, threshold, rb) THEN {Block(rb.size, rb.origin)}
    ELSE IF rb.size <= 1 THEN {}
    ELSE UNION {determined_ranges(img, threshold, q) :
                   q \in {squared_blocks(rb, rb.size \div 2).value[k] :
                             k \in DOMAIN squared_blocks(rb, rb.size \div 2).value}}

\* C27: the range blocks of the Compressed that compress returns are those
\* the image and the threshold determine, each once, whichever match the
\* searches ended with and in whatever order the workers ran them.
C27_RangeBlocksDetermined ==
    returned.tag = "Ok" =>
       /\ {returned.value.transformations[i].range :
              i \in DOMAIN returned.value.transformations}
             = UNION {determined_ranges(image, error_threshold, tasks[p].rb) : p \in top_tasks}
       /\ \A i, j \in DOMAIN returned.value.transformations :
             i # j => returned.value.transformations[i].range
                         # returned.value.transformations[j].range

\* compress returned range blocks of two sizes in a run where a search ended
\* with another match than the first in iteration order.
C27_Witness ==
    /\ returned.tag = "Ok"
    /\ picks > 0
    /\ \E p, q \in DOMAIN tasks :
          /\ Len(p) = 1 /\ emitted(p)
          /\ Len(q) = 2 /\ emitted(q)

\* The call that forked the call p.
parent(p) == SubSeq(p, 1, Len(p) - 1)

\* The calls on blocks not divided further that a worker has run.
leaf_searches == {p \in leaves : visited(p)}

\* C28: on an image of power-of-two side N >= 2, every forked call is on a
\* block of half the side of its parent's, a call on a block of side 1 forks
\* none, no call is deeper than log2(N), at most N * N leaf searches are
\* run, and under fair scheduling compress, once called, returns.
C28_CompressTerminates ==
    /\ [](power_of_two(get_height(image)) /\ get_height(image) >= 2 =>
             /\ \A p \in DOMAIN tasks :
                   /\ Len(p) >= 2 => 2 * tasks[p].rb.size = tasks[parent(p)].rb.size
                   /\ tasks[p].rb.size = 1 => tasks[p].children = 0
                   /\ Len(p) <= Log2[get_height(image)]
             /\ Cardinality(leaf_searches) <= get_height(image) * get_height(image))
    /\ (returned = NotReturned /\ power_of_two(get_height(image)))
          ~> (returned.tag = "Ok")

\* compress returned for a 4 x 4 image after N * N leaf searches at depth
\* log2(N).
C28_Witness ==
    /\ returned.tag = "Ok"
    /\ get_height(image) = 4
    /\ Cardinality(leaf_searches) = 16
    /\ \A p \in leaf_searches : Len(p) = Log2[4]

\* Lemma: a worker that is free to take a call can run its search, and a
\* step that runs one changes the queue as take does.
SearchEnabledWhenFree ==
    /\ [](\A w \in 1 .. NumWorkers : worker_free(w) => search_enabled(w))
    /\ [][\A w \in 1 .. NumWorkers :
             (worker_free(w) /\ queue' # queue) => take(w)]_vars

\* compress has been called.
compress_called == returned # NewCompressor

\* The calls on the initial range blocks are four, on the four blocks of
\* side N/2 of the image, and the search of each has the four rotations of
\* one downscaled domain tile, the whole image.
initial_partition ==
    /\ Cardinality(top_tasks) = 4
    /\ {range_of(p) : p \in top_tasks}
          = {Block(get_height(image) \div 2,
                   Coords(i * (get_height(image) \div 2), j * (get_height(image) \div 2))) :
                i, j \in {0, 1}}
    /\ 2 * (get_height(image) \div 2) = get_height(image)
    /\ \A p \in top_tasks :
          \E tiles \in {squared_blocks(image, 2 * tasks[p].rb.size)} :
             /\ tiles.tag = "Ok"
             /\ Len(tiles.value) = 1
             /\ tiles.value[1].size = get_height(image)
             /\ tiles.value[1].origin = Coords(0, 0)
             /\ \A x, y \in 0 .. get_height(image) - 1 :
                   pixel(tiles.value[1], x, y) = pixel(image, x, y)
             /\ \E cands \in {find_candidates(tiles.value)} :
                   /\ Len(cands) = 4
                   /\ {cands[k].rotation : k \in 1 .. 4} = Rotations
                   /\ \A k \in 1 .. 4 : cands[k].image = downscale_2x2(tiles.value[1])
    /\ \A p \in top_tasks :
          emitted(p) =>
             /\ tasks[p].result.value[1].domain = Block(get_height(image), Coords(0, 0))
             /\ tasks[p].result.value[1].rotation \in Rotations

SinglePixelImageReached == compress_called /\ get_height(image) = 1

(***************************************************************************)
(* Properties of the block indices (SpecIndices).                          *)
(***************************************************************************)
\* The item yielded for row i and column j of the block.
item(i, j) == yielded.value.items[i * self_block.block_size + j + 1]

\* block_size^2 items, row by row, each with the coordinates of its pixel.
yields_coords_row_major ==
    /\ Len(yielded.value.items) = self_block.block_size * self_block.block_size
    /\ \A i, j \in 0 .. self_block.block_size - 1 :
          item(i, j).coords = Coords(self_block.origin.x + j, self_block.origin.y + i)

\* C30, as claimed: indices yields block_size^2 items in row-major order,
\* the item of row i and column j having the coordinates
\* (origin.x + j, origin.y + i) and the index coords.y * image_width + coords.x.
C30_IndicesRowMajor ==
    yielded.tag = "Some" =>
       /\ yields_coords_row_major
       /\ \A i, j \in 0 .. self_block.block_size - 1 :
             item(i, j).index
                = item(i, j).coords.y * yielded.value.image_width + item(i, j).coords.x

\* Lemma: the items and their coordinates are as claimed, and so is the index
\* in the first row of the block and wherever the image is as wide as high.
IndicesRowMajorInSquareImages ==
    yielded.tag = "Some" =>
       /\ yields_coords_row_major
       /\ \A i, j \in 0 .. self_block.block_size - 1 :
             (i = 0 \/ yielded.value.image_width = yielded.value.image_height) =>
                item(i, j).index
                   = item(i, j).coords.y * yielded.value.image_width + item(i, j).coords.x

\* The indices of a block of two rows were asked for, for an image wider
\* than high, and the second row's indices are not those of its pixels.
C30_Witness ==
    /\ yielded.tag = "Some"
    /\ self_block = Block(2, Coords(0, 0))
    /\ yielded.value.image_width = 3
    /\ yielded.value.image_height = 2
    /\ item(1, 0).coords = Coords(0, 1)
    /\ item(1, 0).index = 2

\* The indices of a block of three rows were asked for, for a square image:
\* the last item has the index of its pixel.
SquareIndicesReached ==
    /\ yielded.tag = "Some"
    /\ self_block = Block(3, Coords(1, 1))
    /\ yielded.value.image_width = 4
    /\ yielded.value.image_height = 4
    /\ item(2, 2).index = 15

=============================================================================
